---- MODULE Spec2Model ----
(***************************************************************************)
(* VibePruner: the transactional file-operation engine.                    *)
(*   MigrationTracker  (src/migration_tracker.py)                          *)
(*   RollbackManager   (src/rollback_manager.py)                           *)
(*   the driver's execution flow (src/vibepruner.py)                       *)
(* The filesystem is a map from paths to file contents; the work           *)
(* directory's JSON files are variables of their own, apart from the       *)
(* objects in memory, so that a new tracker over the same work directory   *)
(* sees what was persisted and nothing else.                               *)
(***************************************************************************)
EXTENDS Integers, Sequences, FiniteSets, TLC

(***************************************************************************)
(* Bounds of the model.                                                    *)
(***************************************************************************)
\* the clock stops being read at this reading: it bounds the number of
\* StartTransaction / TrackMigration / CreateRollbackPoint calls of a run
MaxClock == 5
\* the same, where two files are tracked
MaxBatchClock == 6
\* clock readings that fall in the same second (the ids are built from
\* strftime('%Y%m%d_%H%M%S'), the timestamps from isoformat(), microseconds)
TicksPerSecond == 2
\* readings of the audit logger's clock in one day
TicksPerDay == 3
\* the last reading of the audit logger's clock
MaxAuditClock == 3
\* the events logged in one run
MaxEvents == 3
\* the lines an audit file may hold before it is over max_log_size_mb
MaxLogLines == 2
\* the items of an event's details
MaxDetails == 2
\* the checkpoint threads one manager starts
MaxTasks == 2
\* RollbackToPoint calls of a run (rollback_history grows by one each)
MaxRollbacks == 1
\* RollbackToPoint calls of a run that repeats its rollback, and the last
\* clock reading of such a run
MaxRepeats == 2
MaxRepeatClock == 8
\* the sessions created in a run
MaxSessions == 2
\* the checkpoints added to a session
MaxCheckpoints == 2
\* the shutdown handlers registered with a manager
MaxHandlers == 2
\* the session managers' clock stops at this reading
MaxSessionClock == 301

(***************************************************************************)
(* Files.                                                                  *)
(***************************************************************************)
SrcPaths == {"a.txt", "b.txt"}
DestPaths == {"archive/a.txt", "archive/b.txt"}
Paths == SrcPaths \cup DestPaths
NoPath == "<none>"
Contents == {"x", "y"}
NoFile == "<absent>"

Exists(f, p) == p \in Paths /\ f[p] # NoFile

\* _calculate_file_hash: SHA-256 of the content, taken as injective
NoHash == <<"none", "">>
_calculate_file_hash(f, p) == <<"sha256", f[p]>>

\* shutil.move(src, dst) / Path.rename on files: dst is replaced
shutil_move(f, src, dst) == [f EXCEPT ![dst] = f[src], ![src] = NoFile]
\* shutil.copy2(src, dst)
shutil_copy2(f, src, dst) == [f EXCEPT ![dst] = f[src]]
\* Path.unlink()
unlink(f, p) == [f EXCEPT ![p] = NoFile]

(***************************************************************************)
(* Ids and descriptions.  A description is [kind, n]; the id of a          *)
(* transaction is the second it was started in plus the (hashed)           *)
(* description; the id of a rollback point is the second it was made in.   *)
(***************************************************************************)
Second(t) == t \div TicksPerSecond
NoDesc == [kind |-> "none", n |-> 0]
UserDesc == [kind |-> "user", n |-> 0]
RollbackDesc(rollback_id) == [kind |-> "Rollback to", n |-> rollback_id]
DriverDesc(n) == [kind |-> "VibePruner cleanup", n |-> n]
NoId == [sec |-> -1, desc |-> NoDesc]
TransactionId(t, description) == [sec |-> Second(t), desc |-> description]

Operations == {"move", "copy", "archive", "delete", "consolidate"}

\* current_transaction = None
NoTxn == [id |-> NoId, description |-> NoDesc, operations |-> <<>>,
          status |-> "none", failed_operations |-> 0]

VARIABLES
    fs,                  \* the files of the project and of the archive
    now,                 \* the next reading of datetime.now()
    migrations,          \* MigrationTracker.migrations (in memory)
    current_transaction, \* MigrationTracker.current_transaction; its
                         \* operations are the positions in migrations of the
                         \* record objects it shares with that list
    migration_log,       \* migration_log.json
    transaction_log,     \* transaction_log.json
    transactions,        \* transactions/<id>.json, by id
    rollback_points,     \* rollback_<id>.json, by id
    rollback_history,    \* RollbackManager.rollback_history, as last saved
    rollback_log,        \* the file rollback_log.json: there or not, its mtime
    approved_actions,    \* the driver: the actions approved in the review
    pc,                  \* the driver: position in run()
    next_action,         \* the driver: index of the next approved action
    run_rollback_id,     \* the driver: the rollback point made in run()
    clock,               \* the wall clock the session managers read, seconds
    lock_file,           \* session.lock
    session_file,        \* current_session.json
    checkpoint_file,     \* checkpoint.json
    sessions,            \* sessions/<id>.json, by id
    session_count,       \* the sessions created so far (ids are unique)
    managers,            \* the SessionManager of each process
    audit_now,           \* the clock the audit logger reads
    audit_dir,           \* audit/audit_<date>.jsonl, by date: the lines
    audit_archive,       \* audit/archive/: the files rotated, in order
    current_log_file,    \* AuditLogger.current_log_file, by its date
    audit_lock,          \* AuditLogger.lock: the thread holding it
    audit_count,         \* the event ids generated so far (ids are unique)
    audit_threads,       \* the threads calling the audit logger
    report,              \* what generate_audit_report returned last
    io,                  \* where the tracker's process is inside a call
    migration_tmp,       \* migration_log.tmp
    session_tmp,         \* current_session.tmp
    fg,                  \* the foreground thread of a session manager
    tasks,               \* the checkpoint threads started, in order
    last                 \* what the last call returned, if it was a rollback

vars == <<fs, now, migrations, current_transaction, migration_log,
          transaction_log, transactions, rollback_points, rollback_history,
          rollback_log,
          approved_actions, pc, next_action, run_rollback_id,
          clock, lock_file, session_file, checkpoint_file, sessions,
          session_count, managers,
          audit_now, audit_dir, audit_archive, current_log_file, audit_lock,
          audit_count, audit_threads, report, io, migration_tmp,
          session_tmp, fg, tasks, last>>

driver_vars == <<approved_actions, pc, next_action, run_rollback_id>>

tracker_vars == <<fs, now, migrations, current_transaction, migration_log,
                  transaction_log, transactions, rollback_points,
                  rollback_history, rollback_log, last>>

session_vars == <<clock, lock_file, session_file, checkpoint_file, sessions,
                  session_count, managers>>

audit_vars == <<audit_now, audit_dir, audit_archive, current_log_file,
                audit_lock, audit_count, audit_threads, report>>

persist_vars == <<io, migration_tmp>>

checkpoint_vars == <<session_tmp, fg, tasks>>

service_vars == <<session_vars, audit_vars, persist_vars, checkpoint_vars>>

(***************************************************************************)
(* The session managers: one per process, over one work directory.         *)
(***************************************************************************)
Procs == {"p1", "p2"}

\* no session.lock
NoLock == [session_id |-> 0, timestamp |-> -1, pid |-> "none"]

\* self.session = None; no current_session.json
NoSession == [id |-> 0, status |-> "none", phase |-> "none",
              checkpoints |-> <<>>, interrupted |-> FALSE,
              resumed |-> FALSE, started_at |-> -1, ended_at |-> -1]

\* no checkpoint.json
NoCheckpoint == "<none>"

\* SessionManager.__init__; pc and resume are the position of the process in
\* start_session and its argument
NewManager == [session |-> NoSession, is_active |-> FALSE,
               shutdown_handlers |-> <<>>, shutdown_log |-> <<>>,
               pc |-> "idle", resume |-> 0]

SessionInit ==
    /\ clock = 0
    /\ lock_file = NoLock
    /\ session_file = NoSession
    /\ checkpoint_file = NoCheckpoint
    /\ sessions = <<>>
    /\ session_count = 0
    /\ managers = [p \in Procs |-> NewManager]

(***************************************************************************)
(* The audit logger and the threads that call it.                          *)
(***************************************************************************)
Threads == {"t1", "t2"}

\* the date of a reading of the clock: strftime('%Y%m%d')
Date(t) == t \div TicksPerDay

\* what a checksum is taken of: the entry without its checksum, its details
\* as the items json.dumps(sort_keys=True) writes
NoCanonical == [id |-> 0, timestamp |-> -1, event_type |-> "",
                description |-> "", details |-> <<>>]

NoChecksum == [alg |-> "none", of |-> NoCanonical]

\* a line of an audit file: the header or an event
NoEntry == [type |-> "none", id |-> 0, timestamp |-> -1, event_type |-> "",
            description |-> "", details |-> <<>>, checksum |-> NoChecksum]

\* the header _initialize_audit_log writes; timestamp stands for created_at
Header(t) == [NoEntry EXCEPT !.type = "audit_log_header", !.timestamp = t]

\* a thread outside log_event; calls holds the entries of the calls of
\* _write_audit_entry it is in, the innermost first
IdleThread == [pc |-> "idle", calls |-> <<>>]

\* no report made yet
NoReport == [generated |-> FALSE, total_events |-> 0,
             file_operations_total |-> 0]

\* AuditLogger.__init__: today's file, started with a header
AuditInit ==
    /\ audit_now = 0
    /\ current_log_file = Date(0)
    /\ audit_dir = (Date(0) :> << Header(0) >>)
    /\ audit_archive = <<>>
    /\ audit_lock = "free"
    /\ audit_count = 0
    /\ audit_threads = [t \in Threads |-> IdleThread]
    /\ report = NoReport

\* the tracker's process outside any call: the writes the call in progress
\* has still to make, whether one of its writes failed, and how the last
\* call ended
IdleIO == [pc |-> "idle", op |-> "none", pending |-> <<>>, rec |-> 0,
           failed |-> FALSE, outcome |-> "none"]

\* migration_log.tmp and current_session.tmp when they do not exist; a file
\* opened for writing is "torn" until its content has been written whole
NoMigrationTmp == [state |-> "absent", content |-> <<>>]

NoSessionTmp == [state |-> "absent", content |-> NoSession]

\* a thread outside _save_session
IdleSaver == [pc |-> "idle", lost |-> FALSE]

PersistInit ==
    /\ io = IdleIO
    /\ migration_tmp = NoMigrationTmp

CheckpointInit ==
    /\ session_tmp = NoSessionTmp
    /\ fg = IdleSaver
    /\ tasks = <<>>

(***************************************************************************)
(* The state the tracker and the rollback manager work on, as one record,  *)
(* so that an operation that calls another is the composition of the two.  *)
(***************************************************************************)
\* rollback_log.json before the first _save_rollback_history
NoRollbackLog == [exists |-> FALSE, mtime |-> -1]

St == [fs |-> fs, now |-> now, migrations |-> migrations,
       current_transaction |-> current_transaction,
       migration_log |-> migration_log, transaction_log |-> transaction_log,
       transactions |-> transactions, rollback_points |-> rollback_points,
       rollback_history |-> rollback_history, rollback_log |-> rollback_log]

Becomes(st) ==
    /\ fs' = st.fs
    /\ now' = st.now
    /\ migrations' = st.migrations
    /\ current_transaction' = st.current_transaction
    /\ migration_log' = st.migration_log
    /\ transaction_log' = st.transaction_log
    /\ transactions' = st.transactions
    /\ rollback_points' = st.rollback_points
    /\ rollback_history' = st.rollback_history
    /\ rollback_log' = st.rollback_log

\* json.dump(self.current_transaction): the records themselves, not the
\* positions
TxnFile(txn, migs) ==
    [txn EXCEPT !.operations = [k \in DOMAIN txn.operations |->
                                   migs[txn.operations[k]]]]

_save_transaction(st) ==
    IF st.current_transaction = NoTxn THEN st
    ELSE [st EXCEPT !.transaction_log =
              TxnFile(st.current_transaction, st.migrations)]

_save_migrations(st) == [st EXCEPT !.migration_log = st.migrations]

_archive_transaction(st) ==
    IF st.current_transaction = NoTxn THEN st
    ELSE [st EXCEPT !.transactions =
              (st.current_transaction.id :>
                   TxnFile(st.current_transaction, st.migrations))
              @@ st.transactions]

\* a variant that never finds the archived file
_load_transaction_NotFound(st, transaction_id) == NoTxn

\* None when transactions/<id>.json does not exist
_load_transaction(st, transaction_id) ==
    IF transaction_id \in DOMAIN st.transactions
    THEN st.transactions[transaction_id] ELSE NoTxn

(***************************************************************************)
(* MigrationTracker.start_transaction                                      *)
(***************************************************************************)
start_transaction(st, description) ==
    _save_transaction(
        [st EXCEPT !.current_transaction =
                       [id |-> TransactionId(st.now, description),
                        description |-> description,
                        operations |-> <<>>,
                        status |-> "in_progress",
                        failed_operations |-> 0],
                   !.now = st.now + 1])

(***************************************************************************)
(* MigrationTracker.track_migration: the new record is the last of         *)
(* migrations.  original_files is the metadata a consolidation carries.    *)
(***************************************************************************)
MigrationRecord(st, source_path, dest_path, operation, original_files) ==
    [timestamp |-> st.now,
     transaction_id |-> st.current_transaction.id,
     operation |-> operation,
     source_path |-> source_path,
     dest_path |-> dest_path,
     source_hash |-> IF Exists(st.fs, source_path)
                     THEN _calculate_file_hash(st.fs, source_path)
                     ELSE NoHash,
     dest_hash |-> NoHash,
     original_files |-> original_files,
     archive_path |-> NoPath,
     status |-> "pending",
     error |-> "",
     rollback_error |-> FALSE]

track_migration(st, source_path, dest_path, operation, original_files) ==
    LET rec == MigrationRecord(st, source_path, dest_path, operation,
                               original_files)
        migs == Append(st.migrations, rec)
        txn == IF st.current_transaction = NoTxn THEN NoTxn
               ELSE [st.current_transaction EXCEPT
                        !.operations = Append(@, Len(migs))]
    IN _save_migrations(_save_transaction(
           [st EXCEPT !.migrations = migs,
                      !.current_transaction = txn,
                      !.now = st.now + 1]))

(***************************************************************************)
(* MigrationTracker.complete_migration on the record at position i         *)
(***************************************************************************)
HashVerified(f, rec) ==
    ~ (/\ rec.source_hash # NoHash
       /\ rec.operation \in {"move", "copy", "archive"}
       /\ rec.source_hash # _calculate_file_hash(f, rec.dest_path))

CompletedRecord(f, rec, success, error) ==
    LET r1 == [rec EXCEPT !.status = IF success THEN "success" ELSE "failed",
                          !.error = IF error # "" THEN error ELSE @]
    IN IF success /\ rec.dest_path # NoPath /\ Exists(f, rec.dest_path)
       THEN IF HashVerified(f, rec)
            THEN [r1 EXCEPT !.dest_hash = _calculate_file_hash(f, rec.dest_path)]
            ELSE [r1 EXCEPT !.dest_hash = _calculate_file_hash(f, rec.dest_path),
                            !.status = "failed",
                            !.error = "Hash verification failed"]
       ELSE r1

complete_migration(st, i, success, error) ==
    _save_transaction(_save_migrations(
        [st EXCEPT !.migrations[i] =
             CompletedRecord(st.fs, st.migrations[i], success, error)]))

(***************************************************************************)
(* MigrationTracker.commit_transaction                                     *)
(***************************************************************************)
FailedOps(txn, migs) ==
    {k \in DOMAIN txn.operations : migs[txn.operations[k]].status # "success"}

\* a variant that ignores the records' statuses
CommittedTransaction_Always(txn, migs) == [txn EXCEPT !.status = "committed"]

CommittedTransaction(txn, migs) ==
    IF FailedOps(txn, migs) # {}
    THEN [txn EXCEPT !.status = "partial_failure",
                     !.failed_operations = Cardinality(FailedOps(txn, migs))]
    ELSE [txn EXCEPT !.status = "committed"]

commit_transaction(st) ==
    IF st.current_transaction = NoTxn THEN st
    ELSE LET st1 == [st EXCEPT !.current_transaction =
                         CommittedTransaction(@, st.migrations)]
         IN [_archive_transaction(_save_transaction(st1))
                EXCEPT !.current_transaction = NoTxn]

(***************************************************************************)
(* MigrationTracker._reverse_operation: the files afterwards, and whether  *)
(* it raised (Path(None) raises TypeError).                                *)
(***************************************************************************)
\* a variant that copies the file back and leaves the destination
_reverse_operation_Copy(f, operation) ==
    IF operation.dest_path # NoPath /\ Exists(f, operation.dest_path)
    THEN [fs |-> shutil_copy2(f, operation.dest_path, operation.source_path),
          raised |-> FALSE]
    ELSE [fs |-> f, raised |-> FALSE]

_reverse_operation(f, operation) ==
    IF operation.operation \in {"move", "archive"}
    THEN IF operation.dest_path = NoPath THEN [fs |-> f, raised |-> TRUE]
         ELSE IF Exists(f, operation.dest_path)
         THEN [fs |-> shutil_move(f, operation.dest_path, operation.source_path),
               raised |-> FALSE]
         ELSE [fs |-> f, raised |-> FALSE]
    ELSE IF operation.operation = "delete"
    THEN [fs |-> f, raised |-> FALSE]
    ELSE IF operation.operation = "copy"
    THEN IF operation.dest_path = NoPath THEN [fs |-> f, raised |-> TRUE]
         ELSE IF Exists(f, operation.dest_path)
         THEN [fs |-> unlink(f, operation.dest_path), raised |-> FALSE]
         ELSE [fs |-> f, raised |-> FALSE]
    ELSE [fs |-> f, raised |-> FALSE]

\* a variant that keeps the order of the list
Reversed_Forward(s) == s

\* reversed(list)
Reversed(s) == [k \in 1..Len(s) |-> s[Len(s) + 1 - k]]

\* the positions 1..n of a list
Positions(s) == [k \in 1..Len(s) |-> k]

(***************************************************************************)
(* The loop of rollback_transaction over the operations ops (records),     *)
(* visiting the positions ks in turn: the files and the records            *)
(* afterwards, and the positions whose reversal was attempted, in order.   *)
(***************************************************************************)
RECURSIVE RollbackLoop(_, _, _, _)
RollbackLoop(f, ops, ks, order) ==
    IF ks = <<>> THEN [fs |-> f, operations |-> ops, order |-> order]
    ELSE LET k == Head(ks)
         IN IF ops[k].status = "success"
            THEN LET r == _reverse_operation(f, ops[k])
                 IN RollbackLoop(
                        r.fs,
                        IF r.raised
                        THEN [ops EXCEPT ![k].rollback_error = TRUE]
                        ELSE [ops EXCEPT ![k].status = "rolled_back"],
                        Tail(ks), Append(order, k))
            ELSE RollbackLoop(f, ops, Tail(ks), order)

\* the record objects of the current transaction, written back to the list
\* they are shared with
WriteBack(migs, txn, ops) ==
    [i \in DOMAIN migs |->
        IF \E k \in DOMAIN txn.operations : txn.operations[k] = i
        THEN ops[CHOOSE k \in DOMAIN txn.operations : txn.operations[k] = i]
        ELSE migs[i]]

(***************************************************************************)
(* MigrationTracker.rollback_transaction(transaction_id): NoId is the call *)
(* without an id.  A transaction loaded from transactions/<id>.json is a   *)
(* copy: what the loop writes into its records is not in migrations.       *)
(***************************************************************************)
rollback_transaction(st, transaction_id) ==
    LET loaded == transaction_id # NoId
        transaction == IF loaded THEN _load_transaction(st, transaction_id)
                       ELSE st.current_transaction
    IN IF transaction = NoTxn
       THEN [st |-> st, ok |-> FALSE, order |-> <<>>]
       ELSE LET ops == IF loaded THEN transaction.operations
                       ELSE TxnFile(transaction, st.migrations).operations
                r == RollbackLoop(st.fs, ops, Reversed(Positions(ops)), <<>>)
                st1 == IF loaded THEN [st EXCEPT !.fs = r.fs]
                       ELSE [st EXCEPT
                               !.fs = r.fs,
                               !.migrations = WriteBack(@, transaction, r.operations),
                               !.current_transaction.status = "rolled_back"]
            IN [st |-> _save_migrations(_save_transaction(st1)),
                ok |-> TRUE, order |-> r.order]

(***************************************************************************)
(* MigrationTracker.verify_migration_integrity: the issues, in order       *)
(***************************************************************************)
DestinationIssues(f, m, i) ==
    IF m.dest_path # NoPath /\ m.dest_hash # NoHash
    THEN IF ~ Exists(f, m.dest_path)
         THEN << [type |-> "missing_destination", rec |-> i] >>
         ELSE IF _calculate_file_hash(f, m.dest_path) # m.dest_hash
         THEN << [type |-> "hash_mismatch", rec |-> i] >>
         ELSE <<>>
    ELSE <<>>

SourceIssues(f, m, i) ==
    IF m.operation = "move" /\ Exists(f, m.source_path)
    THEN << [type |-> "source_not_removed", rec |-> i] >>
    ELSE <<>>

RECURSIVE IntegrityIssues(_, _, _)
IntegrityIssues(f, migs, i) ==
    IF i > Len(migs) THEN <<>>
    ELSE (IF migs[i].status # "success" THEN <<>>
          ELSE DestinationIssues(f, migs[i], i) \o SourceIssues(f, migs[i], i))
         \o IntegrityIssues(f, migs, i + 1)

verify_migration_integrity(st) == IntegrityIssues(st.fs, st.migrations, 1)

(***************************************************************************)
(* RollbackManager.create_rollback_point: the id is the clock to the       *)
(* second, created_at the clock (read again, in that same second).         *)
(***************************************************************************)
create_rollback_point(st, description) ==
    LET id == Second(st.now)
    IN [st EXCEPT !.rollback_points =
                      (id :> [id |-> id, description |-> description,
                              created_at |-> st.now, status |-> "active"])
                      @@ @,
                  !.now = st.now + 1]

\* a variant that selects every record
_get_migrations_after_All(st, timestamp) == Positions(st.migrations)

\* RollbackManager._get_migrations_after: positions in migrations, in order
_get_migrations_after(st, timestamp) ==
    SelectSeq(Positions(st.migrations),
              LAMBDA i : st.migrations[i].timestamp > timestamp)

\* RollbackManager._reverse_consolidation: each original file is written
\* again from the content kept in the metadata
RECURSIVE WriteOriginals(_, _)
WriteOriginals(f, original_files) ==
    IF original_files = <<>> THEN f
    ELSE WriteOriginals(
             [f EXCEPT ![Head(original_files).path] = Head(original_files).content],
             Tail(original_files))

(***************************************************************************)
(* RollbackManager._reverse_migration of the record at position i: the     *)
(* state afterwards, and whether it raised.                                *)
(***************************************************************************)
_reverse_migration(st, i) ==
    LET migration == st.migrations[i]
        operation == migration.operation
    IN IF operation \in {"archive", "move"}
       THEN IF migration.dest_path # NoPath /\ Exists(st.fs, migration.dest_path)
            THEN [st |-> track_migration(
                            [st EXCEPT !.fs = shutil_move(@, migration.dest_path,
                                                          migration.source_path)],
                            migration.dest_path, migration.source_path,
                            "rollback_move", <<>>),
                  raised |-> FALSE]
            ELSE [st |-> st, raised |-> TRUE]
       ELSE IF operation = "delete"
       THEN IF migration.archive_path # NoPath
            THEN IF Exists(st.fs, migration.archive_path)
                 THEN [st |-> track_migration(
                                 [st EXCEPT !.fs = shutil_copy2(@, migration.archive_path,
                                                                migration.source_path)],
                                 migration.archive_path, migration.source_path,
                                 "rollback_restore", <<>>),
                       raised |-> FALSE]
                 ELSE [st |-> st, raised |-> TRUE]
            ELSE [st |-> st, raised |-> FALSE]
       ELSE IF operation = "consolidate"
       THEN IF migration.dest_path = NoPath
            THEN [st |-> st, raised |-> TRUE]
            ELSE [st |-> [st EXCEPT !.fs = WriteOriginals(@, migration.original_files)],
                  raised |-> FALSE]
       ELSE [st |-> st, raised |-> FALSE]

(***************************************************************************)
(* The loop of rollback_to_point over the positions todo, in turn: the     *)
(* state and the errors afterwards, the positions attempted in order, and  *)
(* those whose reversal raised.                                            *)
(***************************************************************************)
\* a variant whose loop ends at the first reversal that raises
RECURSIVE ReverseLoop_StopAtFailure(_, _, _, _, _)
ReverseLoop_StopAtFailure(st, todo, errors, order, failed) ==
    IF todo = <<>>
    THEN [st |-> st, errors |-> errors, order |-> order, failed |-> failed]
    ELSE LET i == Head(todo)
             r == _reverse_migration(st, i)
         IN IF r.raised
            THEN [st |-> st,
                  errors |-> Append(errors, [type |-> "reversal_failed", rec |-> i]),
                  order |-> Append(order, i), failed |-> Append(failed, i)]
            ELSE ReverseLoop_StopAtFailure(r.st, Tail(todo), errors,
                                           Append(order, i), failed)

RECURSIVE ReverseLoop(_, _, _, _, _)
ReverseLoop(st, todo, errors, order, failed) ==
    IF todo = <<>>
    THEN [st |-> st, errors |-> errors, order |-> order, failed |-> failed]
    ELSE LET i == Head(todo)
             r == _reverse_migration(st, i)
         IN IF r.raised
            THEN ReverseLoop(st, Tail(todo),
                             Append(errors, [type |-> "reversal_failed", rec |-> i]),
                             Append(order, i), Append(failed, i))
            ELSE ReverseLoop(r.st, Tail(todo), errors, Append(order, i), failed)

\* RollbackManager._verify_rollback: the issues that are not expected
_verify_rollback(st) ==
    SelectSeq(verify_migration_integrity(st),
              LAMBDA issue : issue.type # "source_not_removed")

\* RollbackManager._record_rollback
_record_rollback(st, rollback_id, success, errors) ==
    [st EXCEPT !.rollback_log = [exists |-> TRUE, mtime |-> st.now],
               !.rollback_history =
        Append(@, [rollback_id |-> rollback_id,
                   success |-> success,
                   errors |-> errors,
                   migrations_reversed |->
                       Len(_get_migrations_after(
                               st, st.rollback_points[rollback_id].created_at))])]

(***************************************************************************)
(* RollbackManager.rollback_to_point(rollback_id, verify): the state       *)
(* afterwards and the pair returned, with the records selected, those      *)
(* whose reversal was attempted (in order) and those whose reversal raised.*)
(***************************************************************************)
rollback_to_point(st, rollback_id, verify) ==
    IF rollback_id \notin DOMAIN st.rollback_points
    THEN [st |-> st, success |-> FALSE,
          errors |-> << [type |-> "rollback_point_not_found", rec |-> 0] >>,
          selected |-> <<>>, order |-> <<>>, failed |-> <<>>]
    ELSE LET rollback_point == st.rollback_points[rollback_id]
             st1 == start_transaction(st, RollbackDesc(rollback_id))
             migrations_to_reverse ==
                 _get_migrations_after(st1, rollback_point.created_at)
             r == ReverseLoop(st1, Reversed(migrations_to_reverse),
                              <<>>, <<>>, <<>>)
             errors == IF verify THEN r.errors \o _verify_rollback(r.st)
                       ELSE r.errors
             st2 == _record_rollback(r.st, rollback_id, errors = <<>>, errors)
         IN [st |-> commit_transaction(st2),
             success |-> errors = <<>>,
             errors |-> errors,
             selected |-> migrations_to_reverse,
             order |-> r.order,
             failed |-> r.failed]

(***************************************************************************)
(* The calls a program makes on a tracker and its rollback manager, in any *)
(* order, with the file operations the caller performs in between.         *)
(***************************************************************************)
\* what the call that has just returned gave back, when it was one of the two
\* rollbacks: its name and arguments, the value returned, and the records it
\* selected, tried to reverse (in that order) and failed to reverse
Call(op) == [op |-> op, ok |-> TRUE, id |-> NoId, point |-> -1,
             verify |-> FALSE, errors |-> <<>>, selected |-> <<>>, order |-> <<>>,
             failed |-> <<>>, days_to_keep |-> 0, cleaned |-> 0]

Init ==
    /\ fs \in {f \in [Paths -> Contents \cup {NoFile}] :
                  /\ \A p \in DestPaths : f[p] = NoFile
                  /\ f["a.txt"] = "x"
                  /\ f["b.txt"] = "y"}
    /\ now = 0
    /\ migrations = <<>>
    /\ current_transaction = NoTxn
    /\ migration_log = <<>>
    /\ transaction_log = NoTxn
    /\ transactions = <<>>
    /\ rollback_points = <<>>
    /\ rollback_history = <<>>
    /\ rollback_log = NoRollbackLog
    /\ approved_actions = <<>>
    /\ pc = "idle"
    /\ next_action = 0
    /\ run_rollback_id = -1
    /\ last = Call("none")
    /\ SessionInit
    /\ AuditInit
    /\ PersistInit
    /\ CheckpointInit

StartTransaction ==
    /\ LET st == start_transaction(St, UserDesc)
       IN /\ Becomes(st)
          /\ last' = Call("none")
    /\ UNCHANGED <<driver_vars, service_vars>>

\* the metadata a caller gives a consolidation: nothing, or the source file
OriginalFiles(f, source_path, operation) ==
    IF operation = "consolidate" /\ Exists(f, source_path)
    THEN {<<>>, << [path |-> source_path, content |-> f[source_path]] >>}
    ELSE {<<>>}

TrackMigration(source_path, dest_path, operation) ==
    /\ \E original_files \in OriginalFiles(fs, source_path, operation) :
          LET st == track_migration(St, source_path, dest_path, operation,
                                    original_files)
          IN /\ Becomes(st)
             /\ last' = Call("none")
    /\ UNCHANGED <<driver_vars, service_vars>>

\* what the caller does to the files between track_migration and
\* complete_migration, for the record at position i
CallerFiles(f, rec) ==
    IF rec.operation \in {"move", "archive"}
    THEN shutil_move(f, rec.source_path, rec.dest_path)
    ELSE IF rec.operation = "copy"
    THEN shutil_copy2(f, rec.source_path, rec.dest_path)
    ELSE IF rec.operation = "consolidate"
    THEN shutil_move(f, rec.source_path, rec.dest_path)
    ELSE unlink(f, rec.source_path)

CallerIO(i) ==
    /\ migrations[i].status = "pending"
    /\ migrations[i].operation \in Operations
    /\ Exists(fs, migrations[i].source_path)
    /\ migrations[i].dest_path # NoPath \/ migrations[i].operation = "delete"
    /\ fs' = CallerFiles(fs, migrations[i])
    /\ last' = Call("none")
    /\ UNCHANGED <<now, migrations, current_transaction, migration_log,
                   transaction_log, transactions, rollback_points,
                   rollback_history, rollback_log>>
    /\ UNCHANGED <<driver_vars, service_vars>>

CompleteMigration(i, success, error) ==
    /\ Becomes(complete_migration(St, i, success, error))
    /\ last' = Call("none")
    /\ UNCHANGED <<driver_vars, service_vars>>

CommitTransaction ==
    /\ Becomes(commit_transaction(St))
    /\ last' = Call("none")
    /\ UNCHANGED <<driver_vars, service_vars>>

RollbackTransaction(transaction_id) ==
    /\ LET r == rollback_transaction(St, transaction_id)
       IN /\ Becomes(r.st)
          /\ last' = [Call("rollback_transaction") EXCEPT
                         !.id = transaction_id, !.ok = r.ok,
                         !.order = r.order]
    /\ UNCHANGED <<driver_vars, service_vars>>

CreateRollbackPoint ==
    /\ Becomes(create_rollback_point(St, UserDesc))
    /\ last' = Call("none")
    /\ UNCHANGED <<driver_vars, service_vars>>

RollbackToPoint(rollback_id, verify) ==
    /\ LET r == rollback_to_point(St, rollback_id, verify)
       IN /\ Becomes(r.st)
          /\ last' = [Call("rollback_to_point") EXCEPT
                         !.point = rollback_id, !.verify = verify,
                         !.ok = r.success,
                         !.errors = r.errors, !.selected = r.selected,
                         !.order = r.order, !.failed = r.failed]
    /\ UNCHANGED <<driver_vars, service_vars>>

\* MigrationTracker.__init__ and RollbackManager.__init__ over the same
\* work directory, in a new process or in the same one
NewTracker ==
    /\ migrations' = migration_log
    /\ current_transaction' = NoTxn
    /\ last' = Call("none")
    /\ rollback_history' = IF rollback_log.exists THEN rollback_history
                           ELSE <<>>
    /\ UNCHANGED <<fs, now, migration_log, transaction_log, transactions,
                   rollback_points, rollback_log>>
    /\ UNCHANGED <<driver_vars, service_vars>>

\* another process writes a file of the project or of the archive while the
\* tool runs
OutsideWrite(p, content) ==
    /\ Exists(fs, p)
    /\ fs[p] # content
    /\ fs' = [fs EXCEPT ![p] = content]
    /\ last' = Call("none")
    /\ UNCHANGED <<now, migrations, current_transaction, migration_log,
                   transaction_log, transactions, rollback_points,
                   rollback_history, rollback_log>>
    /\ UNCHANGED <<driver_vars, service_vars>>

Tracked(p) == \E i \in DOMAIN migrations : migrations[i].source_path = p

Pending == {i \in DOMAIN migrations : migrations[i].status = "pending"}

\* the clock readings a RollbackToPoint call makes fit the bound
RollbackFits(rollback_id, bound) ==
    /\ Len(rollback_history) < MaxRollbacks
    /\ now < bound
    /\ rollback_to_point(St, rollback_id, TRUE).st.now <= bound

(***************************************************************************)
(* Spec: the calls of a MigrationTracker in any order, on one file of the  *)
(* project that is tracked once, with any operation; the caller completes  *)
(* a record once; a new tracker may be made over the work directory at     *)
(* any time.                                                               *)
(***************************************************************************)
TrackInputs ==
    {in \in {"a.txt"} \X {"archive/a.txt", NoPath} \X Operations :
        /\ ~ Tracked(in[1])
        /\ in[2] = NoPath => in[3] = "delete"}

Next ==
    \/ now < MaxClock /\ StartTransaction
    \/ now < MaxClock /\ \E in \in TrackInputs :
                            TrackMigration(in[1], in[2], in[3])
    \/ \E i \in Pending : CallerIO(i)
    \/ \E i \in Pending : CompleteMigration(i, TRUE, "")
    \/ \E i \in Pending : CompleteMigration(i, FALSE, "io error")
    \/ CommitTransaction
    \/ \E id \in {NoId} \cup DOMAIN transactions : RollbackTransaction(id)
    \/ NewTracker

Spec == Init /\ [][Next]_vars

(***************************************************************************)
(* SpecRollback: the calls of a RollbackManager and of its tracker in any  *)
(* order, on one file of the project that is tracked once.                 *)
(***************************************************************************)
NextRollback ==
    \/ now < MaxClock /\ StartTransaction
    \/ now < MaxClock /\ \E in \in TrackInputs :
                            TrackMigration(in[1], in[2], in[3])
    \/ \E i \in Pending : CallerIO(i)
    \/ \E i \in Pending : CompleteMigration(i, TRUE, "")
    \/ \E i \in Pending : CompleteMigration(i, FALSE, "io error")
    \/ CommitTransaction
    \/ now < MaxClock /\ CreateRollbackPoint
    \/ \E id \in DOMAIN rollback_points \cup {Second(now)}, verify \in BOOLEAN :
          RollbackFits(id, MaxClock) /\ RollbackToPoint(id, verify)

SpecRollback == Init /\ [][NextRollback]_vars

(***************************************************************************)
(* SpecComplete: complete_migration on a record in any state, any number   *)
(* of times, while the file is moved by the caller and written by others.  *)
(***************************************************************************)
NextComplete ==
    \/ now < MaxClock /\ \E in \in TrackInputs :
                            TrackMigration(in[1], in[2], in[3])
    \/ \E i \in Pending : CallerIO(i)
    \/ \E p \in {"a.txt", "archive/a.txt"}, c \in Contents : OutsideWrite(p, c)
    \/ \E i \in DOMAIN migrations : CompleteMigration(i, TRUE, "")
    \/ \E i \in DOMAIN migrations, error \in {"", "io error"} :
          CompleteMigration(i, FALSE, error)

SpecComplete == Init /\ [][NextComplete]_vars

(***************************************************************************)
(* SpecBatch: two files of the project, each moved once, the second to     *)
(* its own place in the archive or to the place of the first; the batch    *)
(* is tracked in one transaction or in none, with one rollback point made  *)
(* before, during or after it.                                             *)
(***************************************************************************)
BatchInputs ==
    {in \in SrcPaths \X DestPaths \X {"move"} :
        /\ ~ Tracked(in[1])
        /\ in[1] = "b.txt" => Tracked("a.txt")
        /\ in[1] = "a.txt" => in[2] = "archive/a.txt"}

NextBatch ==
    \/ /\ now < MaxBatchClock
       /\ migrations = <<>> /\ current_transaction = NoTxn
       /\ StartTransaction
    \/ now < MaxBatchClock /\ \E in \in BatchInputs :
                                 TrackMigration(in[1], in[2], in[3])
    \/ \E i \in Pending : CallerIO(i)
    \/ \E i \in Pending : CompleteMigration(i, TRUE, "")
    \/ \E i \in Pending : CompleteMigration(i, FALSE, "io error")
    \/ CommitTransaction
    \/ RollbackTransaction(NoId)
    \/ now < MaxBatchClock /\ rollback_points = <<>> /\ CreateRollbackPoint
    \/ \E id \in DOMAIN rollback_points, verify \in BOOLEAN :
          RollbackFits(id, MaxBatchClock) /\ RollbackToPoint(id, verify)

SpecBatch == Init /\ [][NextBatch]_vars

(***************************************************************************)
(* Properties of the tracker (Spec).                                       *)
(***************************************************************************)

\* the record at position i is a move that was performed, completed with
\* success and committed, and no transaction is active: the state after
\* StartTransaction; TrackMigration(src, dest, move); the move on disk;
\* CompleteMigration(success); CommitTransaction
CommittedMove(i) ==
    /\ migrations[i].operation = "move"
    /\ migrations[i].status = "success"
    /\ migrations[i].source_hash # NoHash
    /\ migrations[i].transaction_id \in DOMAIN transactions
    /\ transactions[migrations[i].transaction_id].status = "committed"
    /\ transactions[migrations[i].transaction_id].operations = << migrations[i] >>
    /\ current_transaction = NoTxn
    /\ ~ Exists(fs, migrations[i].source_path)
    /\ Exists(fs, migrations[i].dest_path)
    /\ _calculate_file_hash(fs, migrations[i].dest_path) = migrations[i].source_hash

\* the file of record rec is at its source path with the content it had when
\* it was tracked, and not at the destination, in the files f
Restored(f, rec) ==
    /\ Exists(f, rec.source_path)
    /\ _calculate_file_hash(f, rec.source_path) = rec.source_hash
    /\ ~ Exists(f, rec.dest_path)

\* C1 (as stated): after a move was tracked, performed, completed with
\* success and committed, RollbackTransaction() without a transaction id, on
\* the same tracker or on a new one, restores the file to its source path
\* with its original content and leaves the destination absent.
C1_RollbackWithoutIdRestores ==
    [][\A i \in DOMAIN migrations :
          (/\ CommittedMove(i)
           /\ last'.op = "rollback_transaction"
           /\ last'.id = NoId)
          => Restored(fs', migrations[i])]_vars

\* C1 (amended): in that state RollbackTransaction(id), given the id of the
\* committed transaction, returns true and restores the file to its source
\* path with its original content, leaving the destination absent; called
\* without an id it returns false and changes no file.
C1_RollbackByIdRestores ==
    [][\A i \in DOMAIN migrations :
          (CommittedMove(i) /\ last'.op = "rollback_transaction")
          => IF last'.id = migrations[i].transaction_id
             THEN last'.ok /\ Restored(fs', migrations[i])
             ELSE last'.id = NoId => (~ last'.ok /\ fs' = fs)]_vars

\* C1: a committed move has been rolled back by its transaction's id
C1_Witness ==
    /\ last.op = "rollback_transaction"
    /\ last.id # NoId
    /\ last.ok
    /\ \E i \in DOMAIN migrations :
          /\ migrations[i].operation = "move"
          /\ migrations[i].transaction_id = last.id
          /\ last.id \in DOMAIN transactions
          /\ transactions[last.id].status = "committed"
          /\ Restored(fs, migrations[i])

\* C7 (as stated): StartTransaction while a transaction is in progress
\* fails, leaving the transaction in progress and the persisted
\* transaction_log.json as they were.
C7_StartLeavesTransactionInProgress ==
    [][(current_transaction.status = "in_progress" /\ StartTransaction)
       => /\ current_transaction' = current_transaction
          /\ transaction_log' = transaction_log]_vars

\* C8: CommitTransaction on an active transaction archives it in
\* transactions/<id>.json with status partial_failure if one of its records
\* is not success and committed otherwise, with its records as they are, and
\* leaves the tracker with no active transaction.
C8_CommitStatus ==
    [][(current_transaction # NoTxn /\ CommitTransaction)
       => LET id == current_transaction.id
              ops == current_transaction.operations
              expected == IF \E k \in DOMAIN ops :
                                 migrations[ops[k]].status # "success"
                          THEN "partial_failure" ELSE "committed"
          IN /\ id \in DOMAIN transactions'
             /\ transactions'[id].id = id
             /\ transactions'[id].status = expected
             /\ Len(transactions'[id].operations) = Len(ops)
             /\ \A k \in DOMAIN ops :
                   transactions'[id].operations[k] = migrations[ops[k]]
             /\ current_transaction' = NoTxn]_vars

\* C8: a transaction with a failed record has been committed
C8_Witness ==
    /\ current_transaction = NoTxn
    /\ \E id \in DOMAIN transactions :
          /\ transactions[id].status = "partial_failure"
          /\ \E k \in DOMAIN transactions[id].operations :
                transactions[id].operations[k].status = "failed"

(***************************************************************************)
(* Properties of complete_migration (SpecComplete).                        *)
(***************************************************************************)

\* C5 (as stated): in every reachable state each move/copy/archive record
\* with status success carries a dest_hash, equal to its source_hash when
\* that is known.
C5_SuccessHasVerifiedHash ==
    \A i \in DOMAIN migrations :
       (/\ migrations[i].operation \in {"move", "copy", "archive"}
        /\ migrations[i].status = "success")
       => /\ migrations[i].dest_hash # NoHash
          /\ migrations[i].source_hash # NoHash
             => migrations[i].dest_hash = migrations[i].source_hash

\* C6 (as stated): CompleteMigration on a record that is already success or
\* failed does not change its status.
C6_CompletedStatusIsFinal ==
    [][\A i \in DOMAIN migrations :
          (/\ migrations[i].status \in {"success", "failed"}
           /\ \E success \in BOOLEAN, error \in {"", "io error"} :
                 CompleteMigration(i, success, error))
          => migrations'[i].status = migrations[i].status]_vars

(***************************************************************************)
(* Properties of the rollback manager (SpecRollback).                      *)
(***************************************************************************)

\* C3 (as stated): for a rollback point P created before a transaction that
\* tracks, performs, successfully completes and commits a move (the only
\* record after P), RollbackToPoint(P) with verification returns success with
\* an empty error list, and the file is back at its source path with its
\* original content.
C3_RollbackToPointSucceeds ==
    [][\A P \in DOMAIN rollback_points : \A i \in DOMAIN migrations :
          (/\ CommittedMove(i)
           /\ migrations[i].timestamp > rollback_points[P].created_at
           /\ last'.op = "rollback_to_point"
           /\ last'.point = P
           /\ last'.verify
           /\ last'.selected = << i >>)
          => /\ last'.ok
             /\ last'.errors = <<>>
             /\ Restored(fs', migrations[i])]_vars

(***************************************************************************)
(* Properties of rollbacks over several records (SpecBatch).               *)
(***************************************************************************)

\* the records of the active transaction
ActiveRecords ==
    {current_transaction.operations[k] : k \in DOMAIN current_transaction.operations}

\* the active transaction's records are all moves completed with success,
\* of files that existed when tracked, to destinations of their own, and each
\* destination is still present as it was when the move was completed
AllSuccessfulMoves ==
    /\ current_transaction.status = "in_progress"
    /\ ActiveRecords # {}
    /\ \A i \in ActiveRecords :
          /\ migrations[i].operation = "move"
          /\ migrations[i].status = "success"
          /\ migrations[i].source_hash # NoHash
          /\ Exists(fs, migrations[i].dest_path)
          /\ _calculate_file_hash(fs, migrations[i].dest_path) = migrations[i].dest_hash
          /\ \A j \in ActiveRecords \ {i} :
                /\ migrations[j].dest_path # migrations[i].dest_path
                /\ migrations[j].source_path # migrations[i].source_path

\* C2: RollbackTransaction on an active transaction whose records are all
\* successful moves, each destination still present, returns true, puts every
\* file back at its source path with the content it had when tracked, and
\* leaves no destination file.
C2_RollbackRestoresAllMoves ==
    [][(/\ AllSuccessfulMoves
        /\ last'.op = "rollback_transaction"
        /\ last'.id = NoId)
       => /\ last'.ok
          /\ \A i \in ActiveRecords : Restored(fs', migrations[i])]_vars

\* C2: an active transaction of two successful moves has been rolled back
C2_Witness ==
    /\ last.op = "rollback_transaction"
    /\ last.id = NoId
    /\ last.ok
    /\ Len(last.order) = 2
    /\ current_transaction.status = "rolled_back"
    /\ \A i \in ActiveRecords :
          /\ migrations[i].operation = "move"
          /\ migrations[i].status = "rolled_back"
          /\ Restored(fs, migrations[i])

\* C9: RollbackToPoint attempts the reversal of every selected record, in
\* turn, whether or not earlier reversals failed; each failing reversal adds
\* one reversal error to the returned list, every other selected move leaves
\* its rollback_move record, and the success flag returned is true exactly
\* when the error list is empty.
C9_ReversalContinuesPastFailures ==
    last.op = "rollback_to_point"
    => /\ last.order = Reversed(last.selected)
       /\ Len(SelectSeq(last.errors, LAMBDA e : e.type = "reversal_failed"))
             = Len(last.failed)
       /\ \A k \in DOMAIN last.failed :
             \E e \in DOMAIN last.errors :
                last.errors[e] = [type |-> "reversal_failed", rec |-> last.failed[k]]
       /\ \A k \in DOMAIN last.selected :
             LET i == last.selected[k]
             IN (/\ migrations[i].operation = "move"
                 /\ \A n \in DOMAIN last.failed : last.failed[n] # i)
                => \E j \in DOMAIN migrations :
                      /\ migrations[j].operation = "rollback_move"
                      /\ migrations[j].source_path = migrations[i].dest_path
                      /\ migrations[j].dest_path = migrations[i].source_path
       /\ last.ok <=> last.errors = <<>>

\* C9: a reversal failed and a reversal attempted after it succeeded
C9_Witness ==
    /\ last.op = "rollback_to_point"
    /\ ~ last.ok
    /\ \E p, q \in DOMAIN last.order :
          /\ p < q
          /\ \E n \in DOMAIN last.failed : last.failed[n] = last.order[p]
          /\ \A n \in DOMAIN last.failed : last.failed[n] # last.order[q]
          /\ Exists(fs, migrations[last.order[q]].source_path)

\* C10: RollbackTransaction and RollbackToPoint reverse records in the
\* reverse of the order in which they were tracked: of two records reversed,
\* the one tracked later is reversed first.
C10_ReverseOrder ==
    last.op \in {"rollback_transaction", "rollback_to_point"}
    => \A p, q \in DOMAIN last.order :
          p < q => last.order[p] > last.order[q]

\* C10: two records were reversed by RollbackTransaction and then attempted
\* again by RollbackToPoint
C10_Witness ==
    /\ last.op = "rollback_to_point"
    /\ Len(last.order) = 2
    /\ \A k \in DOMAIN last.order :
          migrations[last.order[k]].status = "rolled_back"

(***************************************************************************)
(* The driver, VibePruner.run: a rollback point, the review that approves  *)
(* actions, their execution in one transaction, the validation of the      *)
(* tests and, when it fails, the rollback to the point.                    *)
(***************************************************************************)
\* the actions a review can approve: _create_proposal proposes delete or
\* archive, one action per file
ApprovedActionLists ==
    {<<>>}
    \cup {<< [file_path |-> p, action |-> a] >> :
             p \in SrcPaths, a \in {"delete", "archive"}}
    \cup {<< [file_path |-> "a.txt", action |-> a],
             [file_path |-> "b.txt", action |-> b] >> :
             a \in {"delete", "archive"}, b \in {"delete", "archive"}}

\* archive_dir / file_path.relative_to(project_path)
ArchiveTarget(file_path) ==
    IF file_path = "a.txt" THEN "archive/a.txt" ELSE "archive/b.txt"

\* run, up to the creation of the rollback point
DriverRun ==
    /\ UNCHANGED service_vars
    /\ pc = "idle"
    /\ Becomes(create_rollback_point(St, DriverDesc(0)))
    /\ run_rollback_id' = Second(now)
    /\ pc' = "analysis"
    /\ last' = Call("none")
    /\ UNCHANGED <<approved_actions, next_action>>

\* _review_proposals, and the exits of run without changes
DriverReview(actions) ==
    /\ UNCHANGED service_vars
    /\ pc = "analysis"
    /\ approved_actions' = actions
    /\ pc' = IF actions = <<>> THEN "cancelled" ELSE "approved"
    /\ last' = Call("none")
    /\ UNCHANGED <<fs, now, migrations, current_transaction, migration_log,
                   transaction_log, transactions, rollback_points,
                   rollback_history, rollback_log, next_action,
                   run_rollback_id>>

\* _execute_actions, up to the loop
DriverStartTransaction ==
    /\ UNCHANGED service_vars
    /\ pc = "approved"
    /\ Becomes(start_transaction(St, DriverDesc(Len(approved_actions))))
    /\ pc' = "executing"
    /\ next_action' = 1
    /\ last' = Call("none")
    /\ UNCHANGED <<approved_actions, run_rollback_id>>

\* _execute_single_action: a delete becomes an archive, and the file is
\* renamed into the archive directory if it exists
_execute_single_action(f, action) ==
    IF Exists(f, action.file_path)
    THEN [fs |-> shutil_move(f, action.file_path, ArchiveTarget(action.file_path)),
          action |-> [action EXCEPT !.action = "archive"],
          success |-> TRUE, error |-> ""]
    ELSE [fs |-> f,
          action |-> [action EXCEPT !.action = "archive"],
          success |-> FALSE, error |-> "Unknown action"]

\* one turn of the loop of _execute_actions: the action is tracked as it was
\* approved, executed, and its record completed
DriverExecuteAction ==
    /\ UNCHANGED service_vars
    /\ pc = "executing"
    /\ next_action \in DOMAIN approved_actions
    /\ LET action == approved_actions[next_action]
           st1 == track_migration(St, action.file_path,
                                  ArchiveTarget(action.file_path),
                                  action.action, <<>>)
           result == _execute_single_action(st1.fs, action)
           st2 == complete_migration([st1 EXCEPT !.fs = result.fs],
                                     Len(st1.migrations),
                                     result.success, result.error)
       IN /\ Becomes(st2)
          /\ approved_actions' =
                [approved_actions EXCEPT ![next_action] = result.action]
    /\ next_action' = next_action + 1
    /\ last' = Call("none")
    /\ UNCHANGED <<pc, run_rollback_id>>

\* the end of _execute_actions
DriverCommit ==
    /\ UNCHANGED service_vars
    /\ pc = "executing"
    /\ next_action \notin DOMAIN approved_actions
    /\ Becomes(commit_transaction(St))
    /\ pc' = "validate"
    /\ last' = Call("none")
    /\ UNCHANGED <<approved_actions, next_action, run_rollback_id>>

\* _validate_tests succeeded: _complete_session
DriverComplete ==
    /\ UNCHANGED service_vars
    /\ pc = "validate"
    /\ pc' = "completed"
    /\ last' = Call("none")
    /\ UNCHANGED <<fs, now, migrations, current_transaction, migration_log,
                   transaction_log, transactions, rollback_points,
                   rollback_history, rollback_log, approved_actions, next_action,
                   run_rollback_id>>

\* _validate_tests failed: _perform_rollback(rollback_id)
DriverRollback ==
    /\ UNCHANGED service_vars
    /\ pc = "validate"
    /\ LET r == rollback_to_point(St, run_rollback_id, TRUE)
       IN /\ Becomes(r.st)
          /\ last' = [Call("rollback_to_point") EXCEPT
                         !.point = run_rollback_id, !.verify = TRUE,
                         !.ok = r.success,
                         !.errors = r.errors, !.selected = r.selected,
                         !.order = r.order, !.failed = r.failed]
    /\ pc' = "rolled_back"
    /\ UNCHANGED <<approved_actions, next_action, run_rollback_id>>

\* One run of the driver; the user may edit the project's files while the
\* proposals are reviewed.
NextDriver ==
    \/ DriverRun
    \/ \E actions \in ApprovedActionLists : DriverReview(actions)
    \/ \E p \in SrcPaths, content \in Contents :
          pc = "analysis" /\ OutsideWrite(p, content)
    \/ DriverStartTransaction
    \/ DriverExecuteAction
    \/ DriverCommit
    \/ DriverComplete
    \/ DriverRollback

SpecDriver == Init /\ [][NextDriver]_vars

\* the records of the files the driver moved into the archive directory
DriverMoved ==
    {i \in DOMAIN migrations :
        /\ migrations[i].transaction_id.desc.kind = "VibePruner cleanup"
        /\ migrations[i].status = "success"}

\* C4 (as stated): after the driver's RollbackToPoint on the rollback point
\* created before execution, every file it moved for an approved action,
\* whether proposed as archive or as delete, is back at its original path.
C4_DriverRollbackRestores ==
    pc = "rolled_back"
    => \A i \in DriverMoved :
          /\ Exists(fs, migrations[i].source_path)
          /\ _calculate_file_hash(fs, migrations[i].source_path)
                = migrations[i].source_hash

(***************************************************************************)
(* Reversal of copies by the rollback manager (SpecRollback).              *)
(***************************************************************************)

\* C11 (as stated): RollbackToPoint reverses a copy record recorded after
\* the point, completed with success and whose copy is at dest_path, by
\* deleting the copy: after the rollback the copy no longer exists.
C11_RollbackToPointDeletesCopy ==
    [][\A i \in DOMAIN migrations :
          (/\ migrations[i].operation = "copy"
           /\ migrations[i].status = "success"
           /\ Exists(fs, migrations[i].dest_path)
           /\ last'.op = "rollback_to_point"
           /\ \E k \in DOMAIN last'.selected : last'.selected[k] = i)
          => ~ Exists(fs', migrations[i].dest_path)]_vars

(***************************************************************************)
(* SessionManager.  Its operations are functions of the state of the work  *)
(* directory and of the managers, as one record, and of the process p.     *)
(***************************************************************************)
\* a lock is stale when older than this many seconds
StaleSeconds == 300

Phases == {"initialization", "file_analysis", "execution"}
CheckpointNames == {"test_baseline", "proposals"}
EndStatuses == {"completed", "cancelled", "interrupted", "failed",
                "rolled_back", "dry_run"}
\* the shutdown handlers a program registers: one returns, one raises
Handlers == {"h_returns", "h_raises"}

Ss == [clock |-> clock, lock_file |-> lock_file,
       session_file |-> session_file, checkpoint_file |-> checkpoint_file,
       sessions |-> sessions, session_count |-> session_count,
       managers |-> managers]

SsBecomes(ss) ==
    /\ clock' = ss.clock
    /\ lock_file' = ss.lock_file
    /\ session_file' = ss.session_file
    /\ checkpoint_file' = ss.checkpoint_file
    /\ sessions' = ss.sessions
    /\ session_count' = ss.session_count
    /\ managers' = ss.managers

\* SessionManager._check_session_lock: a lock exists and is not stale
_check_session_lock(ss) ==
    /\ ss.lock_file # NoLock
    /\ ~ (ss.clock - ss.lock_file.timestamp > StaleSeconds)

\* SessionManager._prompt_takeover
_prompt_takeover == TRUE

\* SessionManager._prompt_resume
_prompt_resume == TRUE

\* the check at the head of start_session raises
LockConflict(ss) == _check_session_lock(ss) /\ ~ _prompt_takeover

\* SessionManager._check_abandoned_session
_check_abandoned_session(ss) ==
    IF ss.session_file # NoSession /\ ss.session_file.status = "active"
    THEN ss.session_file ELSE NoSession

\* SessionManager._load_session: NoSession when it raises FileNotFoundError
_load_session(ss, session_id) ==
    IF ss.session_file # NoSession /\ ss.session_file.id = session_id
    THEN ss.session_file
    ELSE IF session_id \in DOMAIN ss.sessions
    THEN ss.sessions[session_id]
    ELSE NoSession

\* SessionManager._create_new_session
_create_new_session(ss) ==
    [NoSession EXCEPT !.id = ss.session_count + 1, !.status = "active",
                      !.phase = "initialization", !.started_at = ss.clock]

\* SessionManager._save_session of process p
_save_session(ss, p) ==
    IF ss.managers[p].session = NoSession THEN ss
    ELSE [ss EXCEPT !.session_file = ss.managers[p].session]

\* SessionManager._archive_session
_archive_session(ss, session) ==
    [ss EXCEPT !.sessions = (session.id :> session) @@ @,
               !.session_file = NoSession]

\* SessionManager._create_session_lock
_create_session_lock(ss, p) ==
    [ss EXCEPT !.lock_file = [session_id |-> ss.managers[p].session.id,
                              timestamp |-> ss.clock, pid |-> p]]

\* a variant that leaves the lock file
_remove_session_lock_Keeps(ss) == ss

\* SessionManager._remove_session_lock
_remove_session_lock(ss) == [ss EXCEPT !.lock_file = NoLock]

\* start_session, lines 48-65: self.session becomes the session resumed by
\* id (resume_session_id 0 is None), the abandoned session or a new one
ResolveSession(ss, p, resume_session_id) ==
    IF resume_session_id # 0
    THEN [ss EXCEPT !.managers[p].session =
                        _load_session(ss, resume_session_id)]
    ELSE LET abandoned_session == _check_abandoned_session(ss)
         IN IF abandoned_session # NoSession
            THEN IF _prompt_resume
                 THEN [ss EXCEPT !.managers[p].session =
                                     [abandoned_session EXCEPT !.resumed = TRUE]]
                 ELSE [_archive_session(ss, abandoned_session) EXCEPT
                          !.managers[p].session = _create_new_session(ss),
                          !.session_count = @ + 1]
            ELSE [ss EXCEPT !.managers[p].session = _create_new_session(ss),
                            !.session_count = @ + 1]

\* start_session, lines 70-77: the session is saved and the manager active
Activate(ss, p) ==
    [_save_session(ss, p) EXCEPT !.managers[p].is_active = TRUE]

\* SessionManager.start_session: the state afterwards and whether it raised
start_session(ss, p, resume_session_id) ==
    IF LockConflict(ss) THEN [ss |-> ss, raised |-> TRUE]
    ELSE IF resume_session_id # 0
            /\ _load_session(ss, resume_session_id) = NoSession
    THEN [ss |-> ss, raised |-> TRUE]
    ELSE [ss |-> Activate(_create_session_lock(
                     ResolveSession(ss, p, resume_session_id), p), p),
          raised |-> FALSE]

\* a variant that does not save the session
update_phase_Unsaved(ss, p, phase) ==
    IF ss.managers[p].session = NoSession THEN ss
    ELSE [ss EXCEPT !.managers[p].session.phase = phase]

\* SessionManager.update_phase
update_phase(ss, p, phase) ==
    IF ss.managers[p].session = NoSession THEN ss
    ELSE _save_session([ss EXCEPT !.managers[p].session.phase = phase], p)

\* SessionManager.add_checkpoint
add_checkpoint(ss, p, name) ==
    _save_session([ss EXCEPT
                      !.managers[p].session.checkpoints = Append(@, name),
                      !.checkpoint_file = name], p)

\* SessionManager.end_session
end_session(ss, p, status) ==
    IF ss.managers[p].session = NoSession THEN ss
    ELSE LET ss1 == [ss EXCEPT !.managers[p].session.ended_at = ss.clock,
                               !.managers[p].session.status = status,
                               !.managers[p].is_active = FALSE]
             ss2 == _archive_session(_save_session(ss1, p),
                                     ss1.managers[p].session)
         IN [_remove_session_lock(ss2) EXCEPT
                !.managers[p].session = NoSession]

\* a variant that ends at the first handler that raises
RECURSIVE _run_shutdown_handlers_StopOnRaise(_, _)
_run_shutdown_handlers_StopOnRaise(handlers, called) ==
    IF handlers = <<>> THEN called
    ELSE IF Head(handlers) = "h_raises" THEN Append(called, Head(handlers))
    ELSE _run_shutdown_handlers_StopOnRaise(Tail(handlers),
                                            Append(called, Head(handlers)))

\* SessionManager._run_shutdown_handlers: the handlers called, in order; an
\* exception of a handler is caught
RECURSIVE _run_shutdown_handlers(_, _)
_run_shutdown_handlers(handlers, called) ==
    IF handlers = <<>> THEN called
    ELSE _run_shutdown_handlers(Tail(handlers), Append(called, Head(handlers)))

\* a variant that runs the handlers without marking or saving the session
signal_handler_NoSave(ss, p) ==
    IF ss.managers[p].session # NoSession /\ ss.managers[p].is_active
    THEN [ss EXCEPT !.managers[p].shutdown_log =
             _run_shutdown_handlers(ss.managers[p].shutdown_handlers,
                                    << "_save_session" >>)]
    ELSE ss

\* the signal handler registered by _register_signal_handlers; shutdown_log
\* is what it did, in order: the save, then the handlers it called
signal_handler(ss, p) ==
    IF ss.managers[p].session # NoSession /\ ss.managers[p].is_active
    THEN LET ss1 == _save_session(
                        [ss EXCEPT !.managers[p].session.interrupted = TRUE], p)
         IN [ss1 EXCEPT !.managers[p].shutdown_log =
                _run_shutdown_handlers(ss.managers[p].shutdown_handlers,
                                       << "_save_session" >>)]
    ELSE ss

\* SessionManager._cleanup, registered with atexit
_cleanup(ss, p) ==
    IF ss.managers[p].session # NoSession /\ ss.managers[p].is_active
    THEN end_session(ss, p, "interrupted")
    ELSE ss

(***************************************************************************)
(* The calls of the processes on their session managers, the signals and   *)
(* the deaths of the processes, and the passing of time.                   *)
(***************************************************************************)
SessionStep(ss) ==
    /\ SsBecomes(ss)
    /\ UNCHANGED <<tracker_vars, driver_vars, audit_vars, persist_vars,
                   checkpoint_vars>>

\* the manager of p has a session and is active
Holds(p) == managers[p].session # NoSession /\ managers[p].is_active

\* the ids a caller can ask to resume: those of the sessions on disk
KnownSessionIds ==
    DOMAIN sessions \cup (IF session_file = NoSession THEN {}
                          ELSE {session_file.id})

StartSession(p, resume_session_id) ==
    /\ managers[p].pc = "idle"
    /\ managers[p].session = NoSession
    /\ SessionStep(start_session(Ss, p, resume_session_id).ss)

\* start_session in steps: the lock check
StartCheck(p, resume_session_id) ==
    /\ managers[p].pc = "idle"
    /\ managers[p].session = NoSession
    /\ ~ LockConflict(Ss)
    /\ SessionStep([Ss EXCEPT !.managers[p].pc = "resolve",
                              !.managers[p].resume = resume_session_id])

\* the session is loaded, resumed or created; a session that cannot be
\* loaded ends the call
StartResolve(p) ==
    /\ managers[p].pc = "resolve"
    /\ IF managers[p].resume # 0
          /\ _load_session(Ss, managers[p].resume) = NoSession
       THEN SessionStep([Ss EXCEPT !.managers[p].pc = "idle",
                                   !.managers[p].resume = 0])
       ELSE SessionStep([ResolveSession(Ss, p, managers[p].resume)
                            EXCEPT !.managers[p].pc = "lock",
                                   !.managers[p].resume = 0])

\* the lock is written
StartLock(p) ==
    /\ managers[p].pc = "lock"
    /\ SessionStep([_create_session_lock(Ss, p)
                       EXCEPT !.managers[p].pc = "save"])

\* the session is saved and the manager is active
StartSave(p) ==
    /\ managers[p].pc = "save"
    /\ SessionStep([Activate(Ss, p) EXCEPT !.managers[p].pc = "idle"])

UpdatePhase(p, phase) ==
    /\ managers[p].pc = "idle"
    /\ Holds(p)
    /\ managers[p].session.phase # phase
    /\ SessionStep(update_phase(Ss, p, phase))

AddCheckpoint(p, name) ==
    /\ managers[p].pc = "idle"
    /\ Holds(p)
    /\ Len(managers[p].session.checkpoints) < MaxCheckpoints
    /\ SessionStep(add_checkpoint(Ss, p, name))

EndSession(p, status) ==
    /\ managers[p].pc = "idle"
    /\ managers[p].session # NoSession
    /\ SessionStep(end_session(Ss, p, status))

\* the periodic task started by _start_checkpoint_thread
CheckpointTask(p) ==
    /\ Holds(p)
    /\ session_file # managers[p].session
    /\ SessionStep(_save_session(Ss, p))

RegisterShutdownHandler(p, handler) ==
    /\ Len(managers[p].shutdown_handlers) < MaxHandlers
    /\ SessionStep([Ss EXCEPT !.managers[p].shutdown_handlers =
                                  Append(@, handler)])

\* SIGINT or SIGTERM is delivered to process p between two calls
Signal(p) ==
    /\ managers[p].pc = "idle"
    /\ Holds(p)
    /\ SessionStep(signal_handler(Ss, p))

\* process p is killed; the process that takes its place has a new manager
Crash(p) ==
    /\ managers[p] # NewManager
    /\ SessionStep([Ss EXCEPT !.managers[p] = NewManager])

\* process p exits: atexit runs _cleanup
Exit(p) ==
    /\ managers[p].pc = "idle"
    /\ managers[p] # NewManager
    /\ SessionStep([_cleanup(Ss, p) EXCEPT !.managers[p] = NewManager])

PassTime(seconds) ==
    /\ clock + seconds <= MaxSessionClock
    /\ SessionStep([Ss EXCEPT !.clock = @ + seconds])

\* a new session may still be created
MaySession == session_count < MaxSessions

\* Sessions of two processes, call by call.
NextSession ==
    \/ \E p \in Procs, id \in {0} \cup KnownSessionIds :
          MaySession /\ StartSession(p, id)
    \/ \E p \in Procs : UpdatePhase(p, "file_analysis")
    \/ \E p \in Procs : AddCheckpoint(p, "test_baseline")
    \/ \E p \in Procs : EndSession(p, "completed")
    \/ \E p \in Procs : CheckpointTask(p)
    \/ \E p \in Procs : Crash(p)
    \/ \E seconds \in {StaleSeconds, StaleSeconds + 1} : PassTime(seconds)

SpecSession == Init /\ [][NextSession]_vars

\* Two processes starting sessions, step by step.
NextSessionRace ==
    \/ \E p \in Procs : MaySession /\ StartCheck(p, 0)
    \/ \E p \in Procs : StartResolve(p)
    \/ \E p \in Procs : StartLock(p)
    \/ \E p \in Procs : StartSave(p)
    \/ \E p \in Procs : EndSession(p, "completed")
    \/ PassTime(StaleSeconds)

SpecSessionRace == Init /\ [][NextSessionRace]_vars

\* One process, its shutdown handlers and the signals it receives; one
\* session, which a process started after a death resumes.
NextSignal ==
    \/ /\ session_count = 0 \/ _check_abandoned_session(Ss) # NoSession
       /\ StartSession("p1", 0)
    \/ \E handler \in Handlers : RegisterShutdownHandler("p1", handler)
    \/ UpdatePhase("p1", "file_analysis")
    \/ Signal("p1")
    \/ EndSession("p1", "completed")
    \/ Crash("p1")
    \/ Exit("p1")

SpecSignal == Init /\ [][NextSignal]_vars

\* One work directory used by one process at a time: a session started,
\* changed, ended, and resumed by the process that follows a death.
NextResume ==
    \/ /\ session_count = 0 \/ _check_abandoned_session(Ss) # NoSession
       /\ StartSession("p1", 0)
    \/ \E id \in KnownSessionIds : StartSession("p1", id)
    \/ \E phase \in Phases : UpdatePhase("p1", phase)
    \/ \E name \in CheckpointNames : AddCheckpoint("p1", name)
    \/ \E status \in {"completed", "failed"} : EndSession("p1", status)
    \/ Crash("p1")
    \/ PassTime(StaleSeconds)

SpecResume == Init /\ [][NextResume]_vars

(***************************************************************************)
(* Properties of the session manager.                                      *)
(***************************************************************************)

\* C12 (as stated): StartSession on a work directory whose session.lock is
\* less than 300 seconds old fails with a lock conflict, leaving the lock
\* file and the current session file unchanged.
C12_FreshLockRefusesStart ==
    [][\A p \in Procs :
          (/\ lock_file # NoLock
           /\ clock - lock_file.timestamp < StaleSeconds
           /\ StartSession(p, 0))
          => /\ start_session(Ss, p, 0).raised
             /\ lock_file' = lock_file
             /\ session_file' = session_file]_vars

\* C13 (as stated): with the steps of two processes' StartSession
\* interleaved in any order, at no time do both hold an active session on
\* the work directory.
C13_AtMostOneActiveSession ==
    Cardinality({p \in Procs : Holds(p)}) <= 1

\* C14: after EndSession(status) on an active session, session.lock and
\* current_session.json do not exist, sessions/<id>.json holds the session
\* with the given status and an ended_at time, and the manager has no
\* session and is not active.
C14_EndSessionArchives ==
    [][\A status \in EndStatuses :
          (Holds("p1") /\ EndSession("p1", status))
          => LET session == managers["p1"].session
             IN /\ lock_file' = NoLock
                /\ session_file' = NoSession
                /\ session.id \in DOMAIN sessions'
                /\ sessions'[session.id] =
                      [session EXCEPT !.status = status, !.ended_at = clock]
                /\ sessions'[session.id].ended_at >= 0
                /\ managers'["p1"].session = NoSession
                /\ ~ managers'["p1"].is_active]_vars

\* C14: a session that was changed has been ended as failed, later than it
\* started
C14_Witness ==
    /\ lock_file = NoLock
    /\ session_file = NoSession
    /\ managers["p1"].session = NoSession
    /\ ~ managers["p1"].is_active
    /\ \E id \in DOMAIN sessions :
          /\ sessions[id].status = "failed"
          /\ sessions[id].ended_at > sessions[id].started_at
          /\ sessions[id].checkpoints # <<>>

\* C15: when the process dies without EndSession, the session on disk is the
\* session as the last UpdatePhase or AddCheckpoint left it; it stays so
\* while no process runs; and StartSession(resumeID = its id) on a new
\* manager returns it: the same id, the last phase set and the checkpoints
\* added, in order.
C15_ResumeAfterDeath ==
    [][/\ (Holds("p1") /\ Crash("p1"))
          => session_file = managers["p1"].session
       /\ (managers["p1"] = NewManager /\ managers'["p1"] = NewManager)
          => session_file' = session_file
       /\ \A id \in KnownSessionIds :
             (/\ managers["p1"] = NewManager
              /\ session_file # NoSession
              /\ session_file.id = id
              /\ StartSession("p1", id))
             => /\ managers'["p1"].session.id = id
                /\ managers'["p1"].session.phase = session_file.phase
                /\ managers'["p1"].session.checkpoints = session_file.checkpoints
                /\ managers'["p1"].is_active]_vars

\* C15: a session with a phase set and two checkpoints, never ended, has
\* been resumed by id after the death of the process that started it
C15_Witness ==
    /\ Holds("p1")
    /\ managers["p1"].session.phase = "execution"
    /\ managers["p1"].session.checkpoints = << "test_baseline", "proposals" >>
    /\ managers["p1"].session.ended_at = -1
    /\ ~ managers["p1"].session.resumed
    /\ lock_file.timestamp > managers["p1"].session.started_at

\* C16: when a signal arrives while a session is active, the session is
\* written to current_session.json first, and then every registered handler
\* is invoked, in registration order, whether or not an earlier one raised.
C16_SignalSavesThenRunsHandlers ==
    [][(Holds("p1") /\ Signal("p1"))
       => /\ managers'["p1"].shutdown_log =
                << "_save_session" >> \o managers["p1"].shutdown_handlers
          /\ session_file' = managers'["p1"].session]_vars

\* C16: a signal has run a handler that raises and then one that returns
C16_Witness ==
    /\ managers["p1"].shutdown_log = << "_save_session", "h_raises", "h_returns" >>
    /\ session_file = managers["p1"].session

\* C17 (as stated): after the signal handler has run for an active session,
\* the session persisted in current_session.json has status interrupted.
C17_SignalSetsStatusInterrupted ==
    [][(Holds("p1") /\ Signal("p1"))
       => session_file'.status = "interrupted"]_vars

\* C17 (amended): after the signal handler has run for an active session,
\* the session persisted in current_session.json is marked interrupted by
\* its interrupted flag, and its status is what it was before the signal.
C17_SignalSetsInterruptedFlag ==
    [][(Holds("p1") /\ Signal("p1"))
       => /\ session_file'.id = managers["p1"].session.id
          /\ session_file'.interrupted
          /\ session_file'.status = managers["p1"].session.status]_vars

\* C17: the session on disk is flagged interrupted and still active
C17_Witness ==
    /\ Holds("p1")
    /\ managers["p1"].shutdown_log # <<>>
    /\ session_file.interrupted
    /\ session_file.status = "active"

(***************************************************************************)
(* The audit logger.  A details dictionary is the sequence of its items in *)
(* insertion order; a key is a Python int or a str, a str being the        *)
(* sequence of its code points.                                            *)
(***************************************************************************)
IntKey(n) == [kind |-> "int", n |-> n, s |-> <<>>]

StrKey(s) == [kind |-> "str", n |-> 0, s |-> s]

\* str(n) of a non-negative int: its decimal digits
RECURSIVE Digits(_)
Digits(n) ==
    IF n < 10 THEN << 48 + n >>
    ELSE Append(Digits(n \div 10), 48 + (n % 10))

\* the key json writes for a dictionary key: an int becomes its decimal string
json_key(k) == IF k.kind = "int" THEN StrKey(Digits(k.n)) ELSE k

\* a < b on strs: by code points, a proper prefix first
RECURSIVE StrLess(_, _)
StrLess(a, b) ==
    IF a = <<>> THEN b # <<>>
    ELSE IF b = <<>> THEN FALSE
    ELSE IF Head(a) # Head(b) THEN Head(a) < Head(b)
    ELSE StrLess(Tail(a), Tail(b))

\* j < k on two keys of one type: ints by value, strs by code points
KeyLess(j, k) == IF j.kind = "int" THEN j.n < k.n ELSE StrLess(j.s, k.s)

\* sorted() raises TypeError on keys of different types
Comparable(details) ==
    \A i, j \in DOMAIN details : details[i].key.kind = details[j].key.kind

RECURSIVE Insert(_, _)
Insert(items, item) ==
    IF items = <<>> THEN << item >>
    ELSE IF KeyLess(item.key, Head(items).key) THEN << item >> \o items
    ELSE << Head(items) >> \o Insert(Tail(items), item)

\* sorted(dct.items()): the items by their keys as they are in memory
RECURSIVE SortItems(_)
SortItems(details) ==
    IF details = <<>> THEN <<>>
    ELSE Insert(SortItems(SubSeq(details, 1, Len(details) - 1)),
                details[Len(details)])

\* the items json.dump writes, in the order given
json_items(details) ==
    [i \in DOMAIN details |->
        [key |-> json_key(details[i].key), value |-> details[i].value]]

\* json.dumps(details, sort_keys=True): sorted first, written after
json_dumps_sorted(details) == json_items(SortItems(details))

\* json.dump(entry): the line stored
json_dump(entry) == [entry EXCEPT !.details = json_items(entry.details)]

\* json.loads of an object: a key read again replaces the value read before
RECURSIVE loads_items(_, _)
loads_items(items, read) ==
    IF items = <<>> THEN read
    ELSE LET item == Head(items)
             at == {i \in DOMAIN read : read[i].key = item.key}
         IN loads_items(Tail(items),
                        IF at = {} THEN Append(read, item)
                        ELSE [i \in DOMAIN read |->
                                 IF i \in at THEN item ELSE read[i]])

\* json.loads(line)
json_loads(line) == [line EXCEPT !.details = loads_items(line.details, <<>>)]

\* AuditLogger._calculate_checksum; sha256 is taken to have no collisions
_calculate_checksum(data) ==
    [alg |-> "sha256",
     of |-> [id |-> data.id, timestamp |-> data.timestamp,
             event_type |-> data.event_type, description |-> data.description,
             details |-> json_dumps_sorted(data.details)]]

\* recomputing the checksum of a stored line
Verifies(line) == _calculate_checksum(json_loads(line)) = line.checksum

\* AuditLogger._should_rotate_log
_should_rotate_log ==
    /\ current_log_file \in DOMAIN audit_dir
    /\ \/ Len(audit_dir[current_log_file]) > MaxLogLines
       \/ Date(audit_now) # current_log_file

\* the directory without a file
Without(dir, name) == [n \in DOMAIN dir \ {name} |-> dir[n]]

\* the directory after one more line of a file
Appended(dir, name, line) ==
    [n \in DOMAIN dir \cup {name} |->
        IF n = name
        THEN (IF name \in DOMAIN dir THEN dir[name] ELSE <<>>) \o << line >>
        ELSE dir[n]]

\* the keys and the details the events of the model carry
Keys == {IntKey(2), IntKey(10), StrKey(<< 97 >>)}

DetailsInputs ==
    {d \in UNION {[1..n -> Keys] : n \in 0..MaxDetails} :
        \A i, j \in DOMAIN d : i # j => d[i] # d[j]}

Details(d) == [i \in DOMAIN d |-> [key |-> d[i], value |-> "v"]]

\* AuditLogger.log_event up to the call of _write_audit_entry: the entry
\* and its checksum are made before the lock is asked for; when the
\* checksum raises, nothing is written
log_event(t, event_type, details) ==
    /\ audit_threads[t].pc = "idle"
    /\ audit_count < MaxEvents
    /\ audit_count' = audit_count + 1
    /\ LET entry == [NoEntry EXCEPT !.type = "event", !.id = audit_count + 1,
                                    !.timestamp = audit_now,
                                    !.event_type = event_type,
                                    !.details = details]
       IN audit_threads' =
             IF Comparable(entry.details)
             THEN [audit_threads EXCEPT ![t] =
                     [pc |-> "waiting",
                      calls |-> << [entry EXCEPT !.checksum =
                                       _calculate_checksum(entry)] >>]]
             ELSE audit_threads
    /\ UNCHANGED <<audit_now, audit_dir, audit_archive, current_log_file,
                   audit_lock>>
    /\ UNCHANGED <<tracker_vars, driver_vars, session_vars, persist_vars,
                   checkpoint_vars, report>>

\* log_event(AuditEvent.SESSION_START, ...) with the details d
LogEvent(t, d) ==
    /\ d \in DetailsInputs
    /\ log_event(t, "session_start", Details(d))

\* AuditLogger.log_file_operation: the details have the keys 'operation'
\* and 'result', and the event type is FILE_OPERATION
LogFileOperation(t) ==
    /\ t \in Threads
    /\ log_event(t, "file_operation",
                 Details(<< StrKey(<< 111, 112, 101, 114, 97, 116, 105, 111, 110 >>),
                            StrKey(<< 114, 101, 115, 117, 108, 116 >>) >>))

\* _write_audit_entry: with self.lock, a threading.Lock, which its holder
\* cannot take again
Acquire(t) ==
    /\ audit_threads[t].pc = "waiting"
    /\ audit_lock = "free"
    /\ audit_lock' = t
    /\ audit_threads' = [audit_threads EXCEPT ![t].pc = "locked"]
    /\ UNCHANGED <<audit_now, audit_dir, audit_archive, current_log_file,
                   audit_count>>
    /\ UNCHANGED <<tracker_vars, driver_vars, session_vars, persist_vars,
                   checkpoint_vars, report>>

\* the body of _write_audit_entry under the lock.  When the file is to be
\* rotated, _rotate_log_file renames it into the archive and calls
\* _initialize_audit_log, which for a missing file calls _write_audit_entry
\* with the header: the thread asks for the lock again.  Otherwise the line
\* is appended and the lock released.
Write(t) ==
    /\ audit_threads[t].pc = "locked"
    /\ IF _should_rotate_log
       THEN LET rotated == Without(audit_dir, current_log_file)
                today == Date(audit_now)
            IN /\ audit_archive' =
                     Append(audit_archive,
                            [name |-> current_log_file, rotated_at |-> audit_now,
                             lines |-> audit_dir[current_log_file]])
               /\ current_log_file' = today
               /\ IF today \in DOMAIN rotated
                  THEN /\ audit_dir' =
                             Appended(rotated, today,
                                      json_dump(Head(audit_threads[t].calls)))
                       /\ audit_lock' = "free"
                       /\ audit_threads' = [audit_threads EXCEPT ![t] =
                             [pc |-> IF Len(@.calls) = 1 THEN "idle" ELSE "locked",
                              calls |-> Tail(@.calls)]]
                  ELSE /\ audit_dir' = rotated
                       /\ audit_lock' = audit_lock
                       /\ audit_threads' = [audit_threads EXCEPT ![t] =
                             [pc |-> "waiting",
                              calls |-> << Header(audit_now) >> \o @.calls]]
       ELSE /\ audit_dir' = Appended(audit_dir, current_log_file,
                                     json_dump(Head(audit_threads[t].calls)))
            /\ audit_lock' = "free"
            /\ audit_threads' = [audit_threads EXCEPT ![t] =
                  [pc |-> IF Len(@.calls) = 1 THEN "idle" ELSE "locked",
                   calls |-> Tail(@.calls)]]
            /\ UNCHANGED <<audit_archive, current_log_file>>
    /\ UNCHANGED <<audit_now, audit_count>>
    /\ UNCHANGED <<tracker_vars, driver_vars, session_vars, persist_vars,
                   checkpoint_vars, report>>

\* datetime.now() moves on
AuditTick ==
    /\ audit_now < MaxAuditClock
    /\ audit_now' = audit_now + 1
    /\ UNCHANGED <<audit_dir, audit_archive, current_log_file, audit_lock,
                   audit_count, audit_threads>>
    /\ UNCHANGED <<tracker_vars, driver_vars, session_vars, persist_vars,
                   checkpoint_vars, report>>

NextAudit ==
    \/ \E t \in Threads, d \in DetailsInputs : LogEvent(t, d)
    \/ \E t \in Threads : Acquire(t)
    \/ \E t \in Threads : Write(t)
    \/ AuditTick

SpecAudit == Init /\ [][NextAudit]_vars

\* every line of every audit file, current or archived
AllLines ==
    UNION {{audit_dir[n][i] : i \in DOMAIN audit_dir[n]} : n \in DOMAIN audit_dir}
    \cup UNION {{audit_archive[k].lines[i] : i \in DOMAIN audit_archive[k].lines} :
                k \in DOMAIN audit_archive}

\* the event lines of a file, in file order
RECURSIVE Events(_)
Events(lines) ==
    IF lines = <<>> THEN <<>>
    ELSE IF Head(lines).type = "event"
         THEN << Head(lines) >> \o Events(Tail(lines))
         ELSE Events(Tail(lines))

NonDecreasing(lines) ==
    \A i, j \in DOMAIN Events(lines) :
        i < j => Events(lines)[i].timestamp <= Events(lines)[j].timestamp

\* C18 (as stated): for every entry written by LogEvent, the checksum stored
\* in the log line equals the hash of the line's canonical sorted-key JSON
\* form with the checksum field removed.
C18_StoredLineVerifies ==
    \A line \in AllLines : line.type = "event" => Verifies(line)

\* C19 (as stated): a LogEvent call that finds the current log file over the
\* ceiling, or named for another date, completes; so a call that has rotated
\* the file is never left waiting for a lock it holds itself, with the old
\* file in the archive and no current file.
C19_RotationCompletes ==
    \A t \in Threads :
        ~ (/\ audit_threads[t].pc = "waiting"
           /\ audit_lock = t
           /\ audit_archive # <<>>
           /\ current_log_file \notin DOMAIN audit_dir)

\* C20 (as stated): under concurrent LogEvent calls the entries within one
\* audit log file appear in non-decreasing order of their timestamp field.
C20_FileInTimestampOrder ==
    /\ \A n \in DOMAIN audit_dir : NonDecreasing(audit_dir[n])
    /\ \A k \in DOMAIN audit_archive : NonDecreasing(audit_archive[k].lines)

(***************************************************************************)
(* AuditLogger.generate_audit_report.  A date is the date of a reading of  *)
(* the clock; NoDate is the filter not given, and the date of a line that  *)
(* has no timestamp (the header), which sorts before every date.           *)
(***************************************************************************)
NoDate == -1

\* AuditLogger._process_log_file_for_report: whether a line is counted
Counted(line, start_date, end_date, event_types) ==
    LET entry_date == IF line.type = "event" THEN Date(line.timestamp)
                      ELSE NoDate
    IN /\ ~ (start_date # NoDate /\ entry_date < start_date)
       /\ ~ (end_date # NoDate /\ entry_date > end_date)
       /\ event_types # {} => line.event_type \in event_types

\* the lines of the files audit/audit_*.jsonl, which the report reads
ReportLines == UNION {{<<n, i>> : i \in DOMAIN audit_dir[n]} : n \in DOMAIN audit_dir}

\* the lines of the files in audit/archive/
ArchivedLines ==
    UNION {{<<k, i>> : i \in DOMAIN audit_archive[k].lines} :
           k \in DOMAIN audit_archive}

\* _update_report_stats counts the entry in the summary; nothing adds to
\* file_operations
generate_audit_report(start_date, end_date, event_types) ==
    [generated |-> TRUE,
     total_events |->
         Cardinality({l \in ReportLines :
                         Counted(audit_dir[l[1]][l[2]], start_date, end_date,
                                 event_types)}),
     file_operations_total |-> 0]

GenerateAuditReport(start_date, end_date, event_types) ==
    /\ report' = generate_audit_report(start_date, end_date, event_types)
    /\ UNCHANGED <<audit_now, audit_dir, audit_archive, current_log_file,
                   audit_lock, audit_count, audit_threads>>
    /\ UNCHANGED <<tracker_vars, driver_vars, session_vars, persist_vars,
                   checkpoint_vars>>

(***************************************************************************)
(* SpecReport: two threads log session events and file operations while    *)
(* the clock moves on, and reports are made, with and without filters.     *)
(***************************************************************************)
NextReport ==
    \/ \E t \in Threads : LogEvent(t, <<>>)
    \/ \E t \in Threads : LogFileOperation(t)
    \/ \E t \in Threads : Acquire(t)
    \/ \E t \in Threads : Write(t)
    \/ AuditTick
    \/ \E start_date \in {NoDate, 1}, event_types \in {{}, {"file_operation"}} :
          GenerateAuditReport(start_date, NoDate, event_types)

SpecReport == Init /\ [][NextReport]_vars

\* C21 (as stated): GenerateAuditReport with no filters counts the entries
\* of every audit log file, the current one and every file rotated into
\* audit/archive/.
C21_ReportCountsArchivedFiles ==
    [][GenerateAuditReport(NoDate, NoDate, {})
       => report'.total_events =
             Cardinality(ReportLines) + Cardinality(ArchivedLines)]_vars

\* C22 (as stated): in a report made with no filters, file_operations.total
\* is the number of FILE_OPERATION entries in the files the report reads.
C22_ReportCountsFileOperations ==
    [][GenerateAuditReport(NoDate, NoDate, {})
       => report'.file_operations_total =
             Cardinality({l \in ReportLines :
                             audit_dir[l[1]][l[2]].event_type = "file_operation"})]_vars

(***************************************************************************)
(* The tracker's calls with their writes to disk as separate steps: a call *)
(* changes the objects in memory and then makes its writes in the order of *)
(* the code.  _save_transaction opens transaction_log.json for writing,    *)
(* which empties it, and dumps into it; _save_migrations opens             *)
(* migration_log.tmp, dumps into it and replaces migration_log.json by it. *)
(***************************************************************************)
\* transaction_log.json opened for writing and not yet written whole
TornTxn == [NoTxn EXCEPT !.status = "<torn>"]

\* what a call has done in memory: the files are as they were
InMemory(st, after) ==
    [after EXCEPT !.transaction_log = st.transaction_log,
                  !.migration_log = st.migration_log]

\* the call op starts: memory becomes that of after, the writes are to come
Begin(op, rec, after, writes) ==
    /\ Becomes(InMemory(St, after))
    /\ io' = [pc |-> "open", op |-> op, pending |-> writes, rec |-> rec,
              failed |-> FALSE, outcome |-> "none"]
    /\ last' = Call("none")
    /\ UNCHANGED migration_tmp
    /\ UNCHANGED <<driver_vars, session_vars, audit_vars, checkpoint_vars>>

\* start_transaction: _save_transaction
BeginStartTransaction ==
    /\ io.pc = "idle"
    /\ Begin("start_transaction", 0, start_transaction(St, UserDesc),
             << "transaction_log" >>)

\* track_migration: _save_transaction when a transaction is active, then
\* _save_migrations
BeginTrackMigration(source_path, dest_path, operation) ==
    /\ io.pc = "idle"
    /\ Begin("track_migration", Len(migrations) + 1,
             track_migration(St, source_path, dest_path, operation, <<>>),
             (IF current_transaction = NoTxn THEN <<>>
              ELSE << "transaction_log" >>) \o << "migration_log" >>)

\* complete_migration: _save_migrations, then _save_transaction
BeginCompleteMigration(i, success) ==
    /\ io.pc = "idle"
    /\ Begin("complete_migration", i,
             complete_migration(St, i, success, ""),
             << "migration_log" >> \o
             (IF current_transaction = NoTxn THEN <<>>
              ELSE << "transaction_log" >>))

\* the process after the write at the head of pending: the next write, or
\* the return of the call
Written(failed) ==
    [io EXCEPT !.pending = Tail(@),
               !.failed = @ \/ failed,
               !.pc = IF Len(io.pending) = 1 THEN "idle" ELSE "open",
               !.outcome = IF Len(io.pending) = 1 THEN "returned" ELSE "none"]

PersistFrame ==
    /\ last' = Call("none")
    /\ UNCHANGED <<fs, now, transactions, rollback_points, rollback_history,
                   rollback_log>>
    /\ UNCHANGED <<driver_vars, session_vars, audit_vars, checkpoint_vars>>

\* open(path, 'w'): of transaction_log.json itself, or of migration_log.tmp
OpenFile ==
    /\ io.pc = "open"
    /\ IF Head(io.pending) = "transaction_log"
       THEN transaction_log' = TornTxn /\ UNCHANGED migration_tmp
       ELSE /\ migration_tmp' = [state |-> "torn", content |-> <<>>]
            /\ UNCHANGED transaction_log
    /\ io' = [io EXCEPT !.pc = "dump"]
    /\ PersistFrame
    /\ UNCHANGED <<migrations, current_transaction, migration_log>>

\* json.dump and the close of the file
DumpFile ==
    /\ io.pc = "dump"
    /\ IF Head(io.pending) = "transaction_log"
       THEN /\ transaction_log' = TxnFile(current_transaction, migrations)
            /\ io' = Written(FALSE)
            /\ UNCHANGED migration_tmp
       ELSE /\ migration_tmp' = [state |-> "whole", content |-> migrations]
            /\ io' = [io EXCEPT !.pc = "replace"]
            /\ UNCHANGED transaction_log
    /\ PersistFrame
    /\ UNCHANGED <<migrations, current_transaction, migration_log>>

\* temp_path.replace(self.migration_log_path)
ReplaceFile ==
    /\ io.pc = "replace"
    /\ migration_log' = migration_tmp.content
    /\ migration_tmp' = NoMigrationTmp
    /\ io' = Written(FALSE)
    /\ PersistFrame
    /\ UNCHANGED <<migrations, current_transaction, transaction_log>>

\* the write in progress raises (disk full, permission): _save_transaction
\* logs the exception and returns, _save_migrations raises it again, and
\* the call ends there
WriteFails ==
    /\ io.pc \in {"open", "dump", "replace"}
    /\ io' = IF Head(io.pending) = "transaction_log"
             THEN Written(TRUE)
             ELSE [io EXCEPT !.pending = <<>>, !.failed = TRUE,
                             !.pc = "idle", !.outcome = "raised"]
    /\ PersistFrame
    /\ UNCHANGED <<migrations, current_transaction, migration_log,
                   transaction_log, migration_tmp>>

\* the process is killed inside a call, and a new tracker is made over the
\* work directory
Kill ==
    /\ io.pc # "idle"
    /\ migrations' = migration_log
    /\ current_transaction' = NoTxn
    /\ io' = IdleIO
    /\ PersistFrame
    /\ UNCHANGED <<migration_log, transaction_log, migration_tmp>>

\* VibePruner._execute_actions: the file is moved once track_migration has
\* returned its record
ExecuteAction(i) ==
    /\ io.pc = "idle" /\ io.op = "track_migration" /\ io.outcome = "returned"
    /\ io.rec = i
    /\ i \in Pending
    /\ CallerIO(i)

\* RollbackManager._reverse_migration of a move: the file is moved back
ReverseMove(i) ==
    /\ io.pc = "idle"
    /\ migrations[i].status = "success"
    /\ migrations[i].operation \in {"archive", "move"}
    /\ migrations[i].dest_path # NoPath
    /\ Exists(fs, migrations[i].dest_path)
    /\ fs' = shutil_move(fs, migrations[i].dest_path, migrations[i].source_path)
    /\ io' = [IdleIO EXCEPT !.pc = "reverse_track", !.op = "_reverse_migration",
                            !.rec = i]
    /\ last' = Call("none")
    /\ UNCHANGED <<now, migrations, current_transaction, migration_log,
                   transaction_log, transactions, rollback_points,
                   rollback_history, rollback_log, migration_tmp>>
    /\ UNCHANGED <<driver_vars, session_vars, audit_vars, checkpoint_vars>>

\* and then the reverse operation is tracked
ReverseTrack ==
    /\ io.pc = "reverse_track"
    /\ Begin("_reverse_migration", io.rec,
             track_migration(St, migrations[io.rec].dest_path,
                             migrations[io.rec].source_path, "rollback_move",
                             <<>>),
             (IF current_transaction = NoTxn THEN <<>>
              ELSE << "transaction_log" >>) \o << "migration_log" >>)

(***************************************************************************)
(* SpecPersist: one file of the project is tracked, moved, completed and   *)
(* moved back, inside a transaction or not, while writes may fail and the  *)
(* process may be killed.                                                  *)
(***************************************************************************)
NextPersist ==
    \/ now < MaxClock /\ current_transaction = NoTxn /\ BeginStartTransaction
    \/ now < MaxClock /\ ~ Tracked("a.txt")
                      /\ BeginTrackMigration("a.txt", "archive/a.txt", "move")
    \/ \E i \in Pending : ExecuteAction(i)
    \/ \E i \in Pending : BeginCompleteMigration(i, TRUE)
    \/ OpenFile
    \/ DumpFile
    \/ ReplaceFile
    \/ WriteFails
    \/ Kill
    \/ now < MaxClock /\ \E i \in DOMAIN migrations : ReverseMove(i)
    \/ ReverseTrack

SpecPersist == Init /\ [][NextPersist]_vars

\* C23 (as stated): if the process is killed at any point during a write of
\* migration_log.json or transaction_log.json, the file afterwards holds
\* the complete previous content or the complete new content.
C23_KillLeavesWholeFiles ==
    [][Kill => transaction_log' # TornTxn]_vars

\* C24 (as stated): none of StartTransaction, TrackMigration and
\* CompleteMigration returns normally after a failed write of the
\* transaction log or the migration log.
C24_FailedWriteIsRaised ==
    (io.outcome = "returned"
        /\ io.op \in {"start_transaction", "track_migration", "complete_migration"})
    => ~ io.failed

\* C25 (as stated): every move of a file on disk, forward or reverse,
\* happens only after a record describing it is in migration_log.json.
C25_MoveAfterPersistedRecord ==
    [][\A s, d \in Paths :
          (/\ Exists(fs, s) /\ ~ Exists(fs', s)
           /\ ~ Exists(fs, d) /\ Exists(fs', d)
           /\ fs'[d] = fs[s])
          => \E i \in DOMAIN migration_log :
                /\ migration_log[i].source_path = s
                /\ migration_log[i].dest_path = d]_vars

(***************************************************************************)
(* Further properties of the tracker and of the rollback manager.          *)
(***************************************************************************)

\* C26 (as stated): after RollbackTransaction, on the active transaction or
\* on an archived one given by id, every record of that transaction that
\* was reversed (a successful move whose file was at its destination) has
\* status rolled_back in the master migration log and in migration_log.json.
C26_ReversedRecordsAreRolledBack ==
    [][\A id \in {NoId} \cup DOMAIN transactions :
          (RollbackTransaction(id) /\ last'.ok)
          => LET tid == IF id = NoId THEN current_transaction.id ELSE id
             IN \A i \in DOMAIN migrations :
                   (/\ migrations[i].transaction_id = tid
                    /\ migrations[i].status = "success"
                    /\ migrations[i].operation \in {"move", "archive"}
                    /\ migrations[i].dest_path # NoPath
                    /\ Exists(fs, migrations[i].dest_path)
                    /\ ~ Exists(fs', migrations[i].dest_path))
                   => /\ migrations'[i].status = "rolled_back"
                      /\ migration_log'[i].status = "rolled_back"]_vars

\* the paths of a record
RecordPaths(m) == {m.source_path, m.dest_path} \ {NoPath}

C28_PendingRecordIsReported ==
    [][NewTracker
       => \A i \in DOMAIN migration_log :
             migration_log[i].status = "pending"
             => /\ migrations'[i].status = "pending"
                /\ LET issues == IntegrityIssues(fs', migrations', 1)
                   IN \E k \in DOMAIN issues : issues[k].rec = i]_vars

(***************************************************************************)
(* The threads of one session manager: the foreground thread (0) and the   *)
(* checkpoint threads (1, 2, ...), with _save_session as the steps it is   *)
(* made of: open current_session.tmp for writing, dump the session into    *)
(* it, replace current_session.json by it.  No lock is taken.              *)
(***************************************************************************)
\* current_session.json made of a file that was not written whole
TornSession == [NoSession EXCEPT !.status = "<torn>"]

\* current_session.json holding "null": json.dump of a session that is None
NullSession == [NoSession EXCEPT !.status = "<null>"]

\* what json.dump(self.session, f) writes
Dumped(session) == IF session = NoSession THEN NullSession ELSE session

Saver(k) == IF k = 0 THEN fg ELSE tasks[k]

SaverBecomes(k, saver) ==
    IF k = 0 THEN fg' = saver /\ UNCHANGED tasks
    ELSE tasks' = [tasks EXCEPT ![k] = saver] /\ UNCHANGED fg

\* where a thread goes on after _save_session: the foreground thread
\* returns from update_phase or, inside end_session (is_active cleared),
\* archives the session; a checkpoint thread tests its loop condition
AfterSave(k) ==
    IF k # 0 THEN "test"
    ELSE IF managers["p1"].is_active THEN "idle" ELSE "archive"

InSave(k) == Saver(k).pc \in {"save_open", "save_dump", "save_replace"}

CheckpointFrame ==
    UNCHANGED <<tracker_vars, driver_vars, audit_vars, persist_vars>>

\* start_session up to _start_checkpoint_thread: the session is made,
\* locked and saved (this one save in one step, which leaves no temporary
\* file) and the thread is started, while is_active is still False
CpStartSession ==
    /\ fg.pc = "idle"
    /\ managers["p1"].session = NoSession
    /\ Len(tasks) < MaxTasks
    /\ session_count < MaxSessions
    /\ SsBecomes([start_session(Ss, "p1", 0).ss EXCEPT
                     !.managers["p1"].is_active = FALSE])
    /\ tasks' = Append(tasks, [pc |-> "test", lost |-> FALSE])
    /\ fg' = [fg EXCEPT !.pc = "activate"]
    /\ session_tmp' = NoSessionTmp
    /\ CheckpointFrame

\* start_session: self.is_active = True, and the return
CpActivate ==
    /\ fg.pc = "activate"
    /\ managers' = [managers EXCEPT !["p1"].is_active = TRUE]
    /\ fg' = [fg EXCEPT !.pc = "idle"]
    /\ UNCHANGED <<clock, lock_file, session_file, checkpoint_file, sessions,
                   session_count, session_tmp, tasks>>
    /\ CheckpointFrame

\* checkpoint_loop: while self.is_active
TaskTest(k) ==
    /\ tasks[k].pc = "test"
    /\ tasks' = [tasks EXCEPT ![k].pc =
                    IF managers["p1"].is_active THEN "sleep" ELSE "exited"]
    /\ UNCHANGED <<session_vars, session_tmp, fg>>
    /\ CheckpointFrame

\* checkpoint_loop: time.sleep returns; if self.is_active and self.session
TaskWake(k) ==
    /\ tasks[k].pc = "sleep"
    /\ tasks' = [tasks EXCEPT ![k].pc =
                    IF managers["p1"].is_active
                       /\ managers["p1"].session # NoSession
                    THEN "save_enter" ELSE "test"]
    /\ UNCHANGED <<session_vars, session_tmp, fg>>
    /\ CheckpointFrame

\* update_phase by the foreground thread, up to its call of _save_session
CpUpdatePhase(phase) ==
    /\ fg.pc = "idle"
    /\ managers["p1"].session # NoSession
    /\ managers' = [managers EXCEPT !["p1"].session.phase = phase]
    /\ fg' = [fg EXCEPT !.pc = "save_enter"]
    /\ UNCHANGED <<clock, lock_file, session_file, checkpoint_file, sessions,
                   session_count, session_tmp, tasks>>
    /\ CheckpointFrame

\* _save_session: if not self.session: return
SaveEnter(k) ==
    /\ Saver(k).pc = "save_enter"
    /\ SaverBecomes(k, [Saver(k) EXCEPT !.pc =
                           IF managers["p1"].session = NoSession
                           THEN AfterSave(k) ELSE "save_open"])
    /\ UNCHANGED <<session_vars, session_tmp>>
    /\ CheckpointFrame

\* _save_session: open(temp_file, 'w'), which empties the file
SaveOpen(k) ==
    /\ Saver(k).pc = "save_open"
    /\ SaverBecomes(k, [Saver(k) EXCEPT !.pc = "save_dump"])
    /\ session_tmp' = [state |-> "torn", content |-> NoSession]
    /\ UNCHANGED session_vars
    /\ CheckpointFrame

\* json.dump(self.session, f) and the close.  When another thread has
\* meanwhile renamed the file, what is written goes into the file under
\* its new name, current_session.json.
SaveDump(k) ==
    /\ Saver(k).pc = "save_dump"
    /\ SaverBecomes(k, [Saver(k) EXCEPT !.pc = "save_replace"])
    /\ IF session_tmp.state # "absent"
       THEN /\ session_tmp' = [state |-> "whole",
                               content |-> Dumped(managers["p1"].session)]
            /\ UNCHANGED session_file
       ELSE /\ session_file' = IF session_file = NoSession THEN NoSession
                               ELSE Dumped(managers["p1"].session)
            /\ UNCHANGED session_tmp
    /\ UNCHANGED <<clock, lock_file, checkpoint_file, sessions, session_count,
                   managers>>
    /\ CheckpointFrame

\* temp_file.replace(self.session_file); FileNotFoundError when the file
\* is gone, which _save_session logs and swallows
SaveReplace(k) ==
    /\ Saver(k).pc = "save_replace"
    /\ IF session_tmp.state = "absent"
       THEN /\ SaverBecomes(k, [pc |-> AfterSave(k), lost |-> TRUE])
            /\ UNCHANGED <<session_file, session_tmp>>
       ELSE /\ SaverBecomes(k, [Saver(k) EXCEPT !.pc = AfterSave(k)])
            /\ session_file' = IF session_tmp.state = "torn" THEN TornSession
                               ELSE session_tmp.content
            /\ session_tmp' = NoSessionTmp
    /\ UNCHANGED <<clock, lock_file, checkpoint_file, sessions, session_count,
                   managers>>
    /\ CheckpointFrame

\* end_session up to the join: ended_at and status are set, then
\* _stop_checkpoint_thread sets self.is_active = False
CpStop(status) ==
    /\ fg.pc = "idle"
    /\ Holds("p1")
    /\ managers' = [managers EXCEPT !["p1"].session.ended_at = clock,
                                    !["p1"].session.status = status,
                                    !["p1"].is_active = FALSE]
    /\ fg' = [fg EXCEPT !.pc = "join"]
    /\ UNCHANGED <<clock, lock_file, session_file, checkpoint_file, sessions,
                   session_count, session_tmp, tasks>>
    /\ CheckpointFrame

\* join(timeout=5) of self.checkpoint_thread returns when that thread has
\* exited or the 5 seconds are over, which a thread inside its 30 seconds'
\* sleep outlasts; end_session goes on with _save_session
CpJoin ==
    /\ fg.pc = "join"
    /\ tasks[Len(tasks)].pc \in {"sleep", "exited"}
    /\ fg' = [fg EXCEPT !.pc = "save_enter"]
    /\ UNCHANGED <<session_vars, session_tmp, tasks>>
    /\ CheckpointFrame

\* the rest of end_session: _archive_session, _remove_session_lock,
\* self.is_active = False, self.session = None
CpArchive ==
    /\ fg.pc = "archive"
    /\ SsBecomes([_remove_session_lock(
                      _archive_session(Ss, managers["p1"].session))
                  EXCEPT !.managers["p1"].session = NoSession,
                         !.managers["p1"].is_active = FALSE])
    /\ fg' = [fg EXCEPT !.pc = "idle"]
    /\ UNCHANGED <<session_tmp, tasks>>
    /\ CheckpointFrame

(***************************************************************************)
(* SpecCheckpoint: one manager starts a session, changes its phase, ends   *)
(* it and starts another, while its checkpoint threads run.                *)
(***************************************************************************)
NextCheckpoint ==
    \/ CpStartSession
    \/ CpActivate
    \/ \E k \in DOMAIN tasks : TaskTest(k)
    \/ \E k \in DOMAIN tasks : TaskWake(k)
    \/ \E phase \in {"file_analysis", "execution"} : CpUpdatePhase(phase)
    \/ \E k \in {0} \cup DOMAIN tasks : SaveEnter(k)
    \/ \E k \in {0} \cup DOMAIN tasks : SaveOpen(k)
    \/ \E k \in {0} \cup DOMAIN tasks : SaveDump(k)
    \/ \E k \in {0} \cup DOMAIN tasks : SaveReplace(k)
    \/ CpStop("completed")
    \/ CpJoin
    \/ CpArchive

SpecCheckpoint == Init /\ [][NextCheckpoint]_vars

\* C29 (as stated): the checkpoint task and the foreground thread are never
\* inside the write-temp-then-rename sequence at the same time; no persist
\* is lost or failed and current_session.json is never torn.
C29_SavesAreSerialized ==
    /\ Cardinality({k \in {0} \cup DOMAIN tasks : InSave(k)}) <= 1
    /\ \A k \in {0} \cup DOMAIN tasks : ~ Saver(k).lost
    /\ session_file # TornSession

\* C30 (as stated): from the return of StartSession until the session is
\* ended, exactly one checkpoint task is running for the manager.
C30_ExactlyOneCheckpointTask ==
    (Holds("p1") /\ fg.pc # "activate")
    => Cardinality({k \in DOMAIN tasks : tasks[k].pc # "exited"}) = 1

\* C31 (as stated): after EndSession has returned, current_session.json,
\* archived and removed, is not created again by a checkpoint task.
C31_NoSessionFileAfterEndSession ==
    (fg.pc = "idle" /\ managers["p1"].session = NoSession)
    => session_file = NoSession

(***************************************************************************)
(* RollbackManager.cleanup_old_rollback_points(days_to_keep): every file   *)
(* of the work directory that matches rollback_*.json and whose mtime is   *)
(* before the cutoff is unlinked.  The pattern matches rollback_<id>.json  *)
(* and rollback_log.json alike.  A point file is written once, when the    *)
(* point is created; rollback_log.json at each _record_rollback.           *)
(***************************************************************************)
SecondsPerDay == 86400

cleanup_old_rollback_points(st, days_to_keep) ==
    LET cutoff_date == st.now - days_to_keep * SecondsPerDay * TicksPerSecond
        old == {id \in DOMAIN st.rollback_points :
                   st.rollback_points[id].created_at < cutoff_date}
        log_old == st.rollback_log.exists /\ st.rollback_log.mtime < cutoff_date
    IN [st |-> [st EXCEPT
                   !.rollback_points =
                       [id \in DOMAIN st.rollback_points \ old |->
                           st.rollback_points[id]],
                   !.rollback_log = IF log_old THEN NoRollbackLog ELSE @,
                   !.now = st.now + 1],
        cleaned |-> Cardinality(old) + (IF log_old THEN 1 ELSE 0)]

CleanupOldRollbackPoints(days_to_keep) ==
    /\ LET r == cleanup_old_rollback_points(St, days_to_keep)
       IN /\ Becomes(r.st)
          /\ last' = [Call("cleanup_old_rollback_points") EXCEPT
                         !.days_to_keep = days_to_keep,
                         !.cleaned = r.cleaned]
    /\ UNCHANGED <<driver_vars, service_vars>>

(***************************************************************************)
(* SpecCleanup: records of every operation kind are tracked and rolled     *)
(* back by the tracker or by the rollback manager; rollback points are     *)
(* made, used and cleaned up, and the managers are made anew over the work *)
(* directory.                                                              *)
(***************************************************************************)
NextCleanup ==
    \/ now < MaxClock /\ StartTransaction
    \/ now < MaxClock /\ \E in \in TrackInputs :
                            TrackMigration(in[1], in[2], in[3])
    \/ \E i \in Pending : CallerIO(i)
    \/ \E i \in Pending : CompleteMigration(i, TRUE, "")
    \/ CommitTransaction
    \/ now < MaxClock /\ CreateRollbackPoint
    \/ \E id \in DOMAIN rollback_points, verify \in BOOLEAN :
          RollbackFits(id, MaxClock) /\ RollbackToPoint(id, verify)
    \/ now < MaxClock /\ \E days_to_keep \in {0, 1} :
                            CleanupOldRollbackPoints(days_to_keep)
    \/ RollbackTransaction(NoId)
    \/ NewTracker

SpecCleanup == Init /\ [][NextCleanup]_vars

\* C32 (as stated): CleanupOldRollbackPoints deletes only rollback point
\* files older than the cutoff, and never rollback_log.json.
C32_CleanupSparesRollbackLog ==
    [][last'.op = "cleanup_old_rollback_points"
       => /\ rollback_log' = rollback_log
          /\ \A id \in DOMAIN rollback_points :
                id \notin DOMAIN rollback_points'
                => rollback_points[id].created_at
                      < now - last'.days_to_keep * SecondsPerDay
                                                 * TicksPerSecond]_vars

\* C33 (as stated): for every record, the reversal of the tracker
\* (_reverse_operation) and the reversal of the rollback manager
\* (_reverse_migration) leave the same files and agree on whether they fail.
C33_ReversalsAgree ==
    \A i \in DOMAIN migrations :
        LET tracker == _reverse_operation(fs, migrations[i])
            manager == _reverse_migration(St, i)
        IN /\ tracker.fs = manager.st.fs
           /\ tracker.raised = manager.raised

\* C34 (as stated): the lock written by a process whose session is still
\* active is never judged stale by _check_session_lock, however long the
\* session runs.
C34_ActiveHoldersLockIsFresh ==
    \A p \in Procs :
        (/\ Holds(p)
         /\ lock_file # NoLock
         /\ lock_file.pid = p
         /\ lock_file.session_id = managers[p].session.id)
        => _check_session_lock(Ss)

\* C35 (as stated): after StartSession has returned and until EndSession is
\* called, the manager's session has status "active", also when it was
\* resumed by id from the sessions/ archive.
C35_StartedSessionIsActive ==
    Holds("p1") => managers["p1"].session.status = "active"

\* C36 (as stated): once the status of the active transaction has become
\* "rolled_back", no later call adds a record to that transaction or
\* changes its status, in memory or in transactions/<id>.json (a
\* StartTransaction, which makes a new transaction object, aside).
C36_RolledBackIsFinal ==
    [][(/\ current_transaction.status = "rolled_back"
        /\ current_transaction'.status # "in_progress")
       => /\ current_transaction'.id = current_transaction.id
             => /\ current_transaction'.status = "rolled_back"
                /\ current_transaction'.operations
                      = current_transaction.operations
          /\ (/\ current_transaction' = NoTxn
              /\ current_transaction.id \in DOMAIN transactions')
             => transactions'[current_transaction.id].status
                   = "rolled_back"]_vars

(***************************************************************************)
(* SpecRepeat: one rollback point, moves tracked after it in one           *)
(* transaction or in none, and RollbackToPoint called more than once.      *)
(***************************************************************************)
NextRepeat ==
    \/ /\ now < MaxRepeatClock
       /\ migrations = <<>> /\ current_transaction = NoTxn
       /\ StartTransaction
    \/ now < MaxRepeatClock /\ \E in \in BatchInputs :
                                  TrackMigration(in[1], in[2], in[3])
    \/ \E i \in Pending : CallerIO(i)
    \/ \E i \in Pending : CompleteMigration(i, TRUE, "")
    \/ CommitTransaction
    \/ now < MaxRepeatClock /\ rollback_points = <<>> /\ CreateRollbackPoint
    \/ \E id \in DOMAIN rollback_points, verify \in BOOLEAN :
          /\ Len(rollback_history) < MaxRepeats
          /\ now < MaxRepeatClock
          /\ rollback_to_point(St, id, TRUE).st.now <= MaxRepeatClock
          /\ RollbackToPoint(id, verify)

SpecRepeat == Init /\ [][NextRepeat]_vars

\* C37 (as stated): after a RollbackToPoint(P) that reversed every selected
\* record without error, a second RollbackToPoint(P) changes no file and
\* returns success with no errors.
C37_RollbackToPointIdempotent ==
    [][(/\ last.op = "rollback_to_point"
        /\ last.ok /\ last.errors = <<>> /\ last.failed = <<>>
        /\ last'.op = "rollback_to_point"
        /\ last'.point = last.point)
       => /\ fs' = fs
          /\ last'.ok
          /\ last'.errors = <<>>]_vars

\* C38 (as stated): when RollbackToPoint reverses every selected record
\* without error, each rollback_move or rollback_restore record it tracked
\* has a status other than "pending", and the rollback transaction it opened
\* is archived with status "committed".
C38_RollbackRecordsAreCompleted ==
    [][(/\ last'.op = "rollback_to_point"
        /\ last'.point \in DOMAIN rollback_points
        /\ last'.ok /\ last'.errors = <<>> /\ last'.failed = <<>>)
       => LET id == TransactionId(now, RollbackDesc(last'.point))
          IN /\ \A i \in DOMAIN migrations' :
                   (/\ i \notin DOMAIN migrations
                    /\ migrations'[i].operation
                          \in {"rollback_move", "rollback_restore"})
                   => migrations'[i].status # "pending"
             /\ id \in DOMAIN transactions'
             /\ transactions'[id].status = "committed"]_vars

\* C39 (as stated): RollbackToPoint leaves the files at the source and
\* destination paths of a record whose status is "pending" or "failed" as
\* they are (paths that a selected record with status "success" shares
\* aside).
C39_RollbackToPointSparesUnsucceeded ==
    [][(last'.op = "rollback_to_point" /\ last'.point \in DOMAIN rollback_points)
       => \A i \in DOMAIN migrations :
             (/\ migrations[i].status \in {"pending", "failed"}
              /\ \A k \in DOMAIN last'.selected :
                    migrations[last'.selected[k]].status = "success"
                    => RecordPaths(migrations[last'.selected[k]])
                          \cap RecordPaths(migrations[i]) = {})
             => \A p \in RecordPaths(migrations[i]) : fs'[p] = fs[p]]_vars

====
